---- MODULE Spec2Model ----
(***************************************************************************)
(* Model of the client-side data layer of UG-HR-Solutions                  *)
(* (src/App.tsx, the DataContext part): the aggregate reducer              *)
(* (dataReducer), the serialisation helper (convertUndefinedToNull) and    *)
(* the synchronisation layer of DataProvider (auth handler, snapshot       *)
(* listener, save effect) running in two browser clients against one       *)
(* remote document.                                                        *)
(*                                                                         *)
(* JavaScript values are modelled as tagged records [t, v]:                *)
(*   undefined, null, numbers, strings, arrays (sequences of values) and   *)
(*   plain objects (functions from property names to values).  A property  *)
(*   that is absent and a property whose value is undefined are different  *)
(*   objects, as in JavaScript.  A string is the sequence of its parts:    *)
(*   one part for a string the code treats as a whole, the parts of the    *)
(*   template literal for a composed id, single characters where the code  *)
(*   inspects the text (startsWith, localeCompare).                        *)
(***************************************************************************)
EXTENDS Integers, Sequences, FiniteSets, TLC

VARIABLES
    \* ---- per client: React state and refs of DataProvider ----
    state,                    \* useReducer(dataReducer, initialState)
    userProfile,              \* TRUE when a profile is set, FALSE for null
    authLoading,
    isFirestoreLoaded,
    saveStatus,               \* "synced" | "saving" | "error"
    isUpdatingFromFirestore,  \* useRef
    isLocalChange,            \* useRef
    \* ---- the remote store and the transport ----
    remoteDoc,                \* the document at FIRESTORE_DOC_PATH, or Absent
    pendingWrites,            \* per client: the set() calls still in flight
    snapshots,                \* per client: notifications not yet delivered
    listening,                \* per client: the onSnapshot listener is live
    \* ---- history (not read by the program) ----
    ev,                       \* what the last step did
    hist,                     \* bookkeeping for the properties
    \* ---- the reducer and the serialiser applied on their own ----
    rPrev, rAction, rState, rSteps,
    rLog,                     \* history: the actions that Logged has applied
    cIn, cOnce, cOut, cPc,
    \* ---- SalaryCalculator: component state and the browser's time zone ----
    currentDate,              \* useState(new Date()), as [year, month, day]
    timeZone,                 \* hours east of UTC
    \* ---- AttendanceRegister: component state ----
    selectedCell              \* useState(null): Null or the cell of the modal

vars == << state, userProfile, authLoading, isFirestoreLoaded, saveStatus,
           isUpdatingFromFirestore, isLocalChange, remoteDoc, pendingWrites,
           snapshots, listening, ev, hist, rPrev, rAction, rState, rSteps,
           rLog, cIn, cOnce, cOut, cPc, currentDate, timeZone, selectedCell >>

syncVars == << state, userProfile, authLoading, isFirestoreLoaded, saveStatus,
               isUpdatingFromFirestore, isLocalChange, remoteDoc,
               pendingWrites, snapshots, listening, ev, hist >>

reducerVars == << rPrev, rAction, rState, rSteps, rLog >>

convertVars == << cIn, cOnce, cOut, cPc >>

payrollVars == << currentDate, timeZone, selectedCell >>

-----------------------------------------------------------------------------
(* JavaScript values *)

Undef  == [t |-> "undef", v |-> 0]
Null   == [t |-> "null", v |-> 0]
Num(n) == [t |-> "num", v |-> n]
Str(s) == [t |-> "str", v |-> s]
S(a)   == Str(<< a >>)
Bool(b) == [t |-> "bool", v |-> b]
Arr(s) == [t |-> "arr", v |-> s @@ << >>]
Obj(f) == [t |-> "obj", v |-> f @@ << >>]

\* a reducer call that ends in an uncaught TypeError
Throw  == [t |-> "throw", v |-> 0]

\* doc.exists === false
Absent == [t |-> "absent", v |-> 0]

EmptyObj == Obj([k \in {} |-> Undef])

\* key in obj
Has(obj, key) == obj.t = "obj" /\ key \in DOMAIN obj.v

\* obj[key]
Get(obj, key) == IF Has(obj, key) THEN obj.v[key] ELSE Undef

\* { ...obj, [key]: val }
Spread(obj, key, val) ==
    Obj((key :> val) @@ obj.v)

\* { ...a, ...b }
Merge(a, b) ==
    Obj(b.v @@ a.v)

\* the truthiness test behind a || b
Truthy(x) ==
    /\ x.t \notin {"undef", "null"}
    /\ ~(x.t = "num" /\ x.v = 0)
    /\ ~(x.t = "str" /\ x.v = << >>)
    /\ ~(x.t = "bool" /\ x.v = FALSE)

\* a || b
OrElse(a, b) == IF Truthy(a) THEN a ELSE b

\* a ?? b
Nullish(a, b) == IF a.t \in {"undef", "null"} THEN b ELSE a

\* s.startsWith(p) on character sequences
startsWith(s, p) == Len(s) >= Len(p) /\ SubSeq(s, 1, Len(p)) = p

\* arr.includes(x)
includes(s, x) == \E i \in DOMAIN s : s[i] = x

\* the positions of arr that arr.filter(keep) retains, in order
RECURSIVE KeptIndices(_, _, _)
KeptIndices(n, i, keep) ==
    IF i > n THEN << >>
    ELSE IF i \in keep THEN << i >> \o KeptIndices(n, i + 1, keep)
    ELSE KeptIndices(n, i + 1, keep)

\* arr.filter(...) where keep is the set of positions passing the test
FilterAt(s, keep) ==
    LET idx == KeptIndices(Len(s), 1, keep)
    IN  [j \in DOMAIN idx |-> s[idx[j]]]

-----------------------------------------------------------------------------
(* convertUndefinedToNull, src/App.tsx 599-620 *)

\* what a property whose value is undefined is written as
UndefinedReplacement_Kept == Undef

UndefinedReplacement == Null

RECURSIVE convertUndefinedToNull(_)
convertUndefinedToNull(obj) ==
    IF obj.t = "arr"
    THEN Arr([i \in DOMAIN obj.v |-> convertUndefinedToNull(obj.v[i])])
    ELSE IF obj.t = "obj"
    THEN Obj([key \in DOMAIN obj.v |->
                IF obj.v[key].t = "undef" THEN UndefinedReplacement
                ELSE convertUndefinedToNull(obj.v[key])])
    ELSE obj

-----------------------------------------------------------------------------
(* getInitialState, src/App.tsx 640-738 *)

CollectionKeys ==
    { "customers", "suppliers", "vendors", "subSuppliers", "employees", "banks",
      "cashAccounts", "originalTypes", "originalProducts", "divisions",
      "subDivisions", "warehouses", "sections", "categories", "items", "logos",
      "assetTypes", "commissionAgents", "freightForwarders", "clearingAgents",
      "loanAccounts", "capitalAccounts", "investmentAccounts", "expenseAccounts",
      "inventoryAccounts", "packingMaterialInventoryAccounts",
      "fixedAssetAccounts", "accumulatedDepreciationAccounts",
      "receivableAccounts", "revenueAccounts", "payableAccounts",
      "attendanceRecords", "salaryPayments", "hrTasks", "hrEnquiries", "vehicles",
      "fixedAssets", "depreciationEntries", "originalOpenings",
      "originalPurchases", "productions", "salesInvoices", "ongoingOrders",
      "finishedGoodsPurchases", "packingMaterialItems",
      "packingMaterialPurchases", "logisticsEntries", "guaranteeCheques",
      "customsDocuments", "favoriteCombinations", "journalEntries", "testEntries",
      "plannerCustomerIds", "plannerSupplierIds", "plannerExpenseAccountIds" }

CounterKeys ==
    { "nextInvoiceNumber", "nextOngoingOrderNumber",
      "nextFinishedGoodsPurchaseNumber", "nextPackingMaterialPurchaseNumber",
      "nextLogisticsSNo", "nextHRTaskId", "nextHREnquiryId",
      "nextGuaranteeChequeSNo", "nextReceiptVoucherNumber",
      "nextPaymentVoucherNumber", "nextExpenseVoucherNumber",
      "nextJournalVoucherNumber", "nextTestEntryNumber" }

PlannerScalarKeys ==
    { "plannerData", "plannerLastWeeklyReset", "plannerLastMonthlyReset" }

Account(id, name) == Obj([id |-> S(id), name |-> S(name)])

\* the collections that getInitialState does not leave empty
SeededAccounts ==
    [ expenseAccounts |-> << Account("EXP-012", "Depreciation Expense") >>,
      inventoryAccounts |-> << Account("INV-FG-001", "Finished Goods Inventory") >>,
      packingMaterialInventoryAccounts |->
          << Account("INV-PM-001", "Packing Material Inventory") >>,
      fixedAssetAccounts |-> << Account("FA-001", "Fixed Assets at Cost") >>,
      accumulatedDepreciationAccounts |->
          << Account("AD-001", "Accumulated Depreciation") >>,
      receivableAccounts |-> << Account("AR-001", "Accounts Receivable") >>,
      revenueAccounts |-> << Account("REV-001", "Sales Revenue") >>,
      payableAccounts |-> << Account("AP-001", "Accounts Payable"),
                             Account("AP-002", "Customs Charges Payable") >> ]

getInitialState ==
    Obj([key \in CollectionKeys \cup CounterKeys \cup PlannerScalarKeys |->
            IF key \in CounterKeys THEN Num(1)
            ELSE IF key = "plannerData" THEN EmptyObj
            ELSE IF key \in PlannerScalarKeys THEN Str(<< >>)
            ELSE IF key \in DOMAIN SeededAccounts THEN Arr(SeededAccounts[key])
            ELSE Arr(<< >>)])

-----------------------------------------------------------------------------
(* processState, src/App.tsx 622-637 *)

\* productionsByItem[itemId] || 0
RECURSIVE productionsByItem(_, _)
productionsByItem(productions, itemId) ==
    IF productions = << >> THEN 0
    ELSE (IF Get(Head(productions), "itemId") = itemId
          THEN Get(Head(productions), "quantityProduced").v ELSE 0)
         + productionsByItem(Tail(productions), itemId)

\* (item.openingStock || 0) + totalProduced + 1
nextBaleNumber(item, productions) ==
    (IF Truthy(Get(item, "openingStock")) THEN Get(item, "openingStock").v ELSE 0)
    + productionsByItem(productions, Get(item, "id")) + 1

processState(st) ==
    Spread(st, "items",
           Arr([i \in DOMAIN Get(st, "items").v |->
                  Spread(Get(st, "items").v[i], "nextBaleNumber",
                         Num(nextBaleNumber(Get(st, "items").v[i],
                                            Get(st, "productions").v)))]))

initialState == processState(getInitialState)

-----------------------------------------------------------------------------
(* dataReducer, src/App.tsx 762-953 *)

AddEntity(entity, data) == [type |-> "ADD_ENTITY", entity |-> entity, data |-> data]
UpdateEntity(entity, data) ==
    [type |-> "UPDATE_ENTITY", entity |-> entity, data |-> data]
DeleteEntity(entity, id) == [type |-> "DELETE_ENTITY", entity |-> entity, id |-> id]
RestoreState(payload) == [type |-> "RESTORE_STATE", payload |-> payload]
BatchUpdate(list) == [type |-> "BATCH_UPDATE", list |-> list]
AddPlannerEntity(entityType, entityId) ==
    [type |-> "ADD_PLANNER_ENTITY", entityType |-> entityType, entityId |-> entityId]
RemovePlannerEntity(entityType, entityId) ==
    [type |-> "REMOVE_PLANNER_ENTITY", entityType |-> entityType,
     entityId |-> entityId]
HardResetTransactions == [type |-> "HARD_RESET_TRANSACTIONS"]
ToggleFavoriteCombination(date) ==
    [type |-> "TOGGLE_FAVORITE_COMBINATION", date |-> date]
SetPlannerData(payload) == [type |-> "SET_PLANNER_DATA", payload |-> payload]

\* x + 1 on a JavaScript value
NaN == [t |-> "nan", v |-> 0]
plusOne(x) == IF x.t = "num" THEN Num(x.v + 1) ELSE NaN

\* ---- ADD_PLANNER_ENTITY / REMOVE_PLANNER_ENTITY, 764-776 ----
plannerKey(entityType) ==
    IF entityType = "customer" THEN "plannerCustomerIds"
    ELSE IF entityType = "supplier" THEN "plannerSupplierIds"
    ELSE "plannerExpenseAccountIds"

plannerCurrentIds(st, entityType) ==
    OrElse(Get(st, plannerKey(entityType)), Arr(<< >>)).v

addPlannerEntity(st, entityType, entityId) ==
    IF includes(plannerCurrentIds(st, entityType), entityId) THEN st
    ELSE Spread(st, plannerKey(entityType),
                Arr(Append(plannerCurrentIds(st, entityType), entityId)))

removePlannerEntity(st, entityType, entityId) ==
    LET currentIds == plannerCurrentIds(st, entityType)
    IN  Spread(st, plannerKey(entityType),
               Arr(FilterAt(currentIds,
                            {i \in DOMAIN currentIds : currentIds[i] # entityId})))

\* ---- HARD_RESET_TRANSACTIONS, 777-814 ----
HardResetCollections ==
    { "salesInvoices", "originalPurchases", "finishedGoodsPurchases",
      "packingMaterialPurchases", "journalEntries", "productions",
      "originalOpenings", "ongoingOrders", "logisticsEntries",
      "attendanceRecords", "salaryPayments", "hrTasks", "hrEnquiries",
      "favoriteCombinations", "testEntries", "depreciationEntries" }

HardResetCounters ==
    { "nextInvoiceNumber", "nextOngoingOrderNumber",
      "nextFinishedGoodsPurchaseNumber", "nextPackingMaterialPurchaseNumber",
      "nextLogisticsSNo", "nextReceiptVoucherNumber", "nextPaymentVoucherNumber",
      "nextExpenseVoucherNumber", "nextJournalVoucherNumber",
      "nextTestEntryNumber", "nextHRTaskId", "nextHREnquiryId" }

hardResetTransactions(st) ==
    Merge(st,
          Obj([key \in HardResetCollections \cup HardResetCounters
                       \cup PlannerScalarKeys |->
                 IF key \in HardResetCollections THEN Arr(<< >>)
                 ELSE IF key \in HardResetCounters THEN Num(1)
                 ELSE IF key = "plannerData" THEN EmptyObj
                 ELSE Str(<< >>)]))

\* ---- ADD_ENTITY, 820-844 ----
\* the cheques are left without a counter
CounterOfEntity_NoCheques ==
    [ salesInvoices |-> "nextInvoiceNumber",
      ongoingOrders |-> "nextOngoingOrderNumber",
      finishedGoodsPurchases |-> "nextFinishedGoodsPurchaseNumber",
      packingMaterialPurchases |-> "nextPackingMaterialPurchaseNumber",
      logisticsEntries |-> "nextLogisticsSNo",
      hrTasks |-> "nextHRTaskId",
      hrEnquiries |-> "nextHREnquiryId",
      testEntries |-> "nextTestEntryNumber" ]

\* the counter that the addition of an entity advances (824-832)
CounterOfEntity ==
    [ salesInvoices |-> "nextInvoiceNumber",
      ongoingOrders |-> "nextOngoingOrderNumber",
      finishedGoodsPurchases |-> "nextFinishedGoodsPurchaseNumber",
      packingMaterialPurchases |-> "nextPackingMaterialPurchaseNumber",
      logisticsEntries |-> "nextLogisticsSNo",
      guaranteeCheques |-> "nextGuaranteeChequeSNo",
      hrTasks |-> "nextHRTaskId",
      hrEnquiries |-> "nextHREnquiryId",
      testEntries |-> "nextTestEntryNumber" ]

\* the voucher series: entry type, id prefix, counter (837-840)
VoucherSeries ==
    << [entryType |-> "Receipt", prefix |-> << "R", "V", "-" >>,
        counter |-> "nextReceiptVoucherNumber"],
       [entryType |-> "Payment", prefix |-> << "P", "V", "-" >>,
        counter |-> "nextPaymentVoucherNumber"],
       [entryType |-> "Expense", prefix |-> << "E", "V", "-" >>,
        counter |-> "nextExpenseVoucherNumber"],
       [entryType |-> "Journal", prefix |-> << "J", "V", "-" >>,
        counter |-> "nextJournalVoucherNumber"] >>

\* the first series whose entry type matches; its prefix test decides (the
\* if / else-if chain stops at the first pair that matches both)
RECURSIVE voucherCounter(_, _)
voucherCounter(entry, i) ==
    IF i > Len(VoucherSeries) THEN ""
    ELSE IF /\ Get(entry, "entryType") = S(VoucherSeries[i].entryType)
            /\ startsWith(Get(entry, "voucherId").v, VoucherSeries[i].prefix)
         THEN VoucherSeries[i].counter
         ELSE voucherCounter(entry, i + 1)

\* every entry is taken for the first of its voucher
isFirstEntryForVoucher_Always(st, entry) == TRUE

isFirstEntryForVoucher(st, entry) ==
    LET journalEntries == Get(st, "journalEntries").v
    IN  ~ \E i \in DOMAIN journalEntries :
            Get(journalEntries[i], "voucherId") = Get(entry, "voucherId")

\* a voucherId on which startsWith would be called although it is no string
voucherIdThrows(st, entry) ==
    /\ isFirstEntryForVoucher(st, entry)
    /\ \E i \in DOMAIN VoucherSeries :
          Get(entry, "entryType") = S(VoucherSeries[i].entryType)
    /\ Get(entry, "voucherId").t # "str"

addEntity(st, entity, data) ==
    LET entityArray == Get(st, entity)
    IN  IF entityArray.t # "arr" THEN Throw    \* [...entityArray, data]
        ELSE
        LET appended == Spread(st, entity, Arr(Append(entityArray.v, data)))
            counted ==
                IF entity \in DOMAIN CounterOfEntity
                THEN Spread(appended, CounterOfEntity[entity],
                            plusOne(Get(st, CounterOfEntity[entity])))
                ELSE appended
        IN  IF entity # "journalEntries" THEN counted
            ELSE IF voucherIdThrows(st, data) THEN Throw
            ELSE IF /\ isFirstEntryForVoucher(st, data)
                    /\ voucherCounter(data, 1) # ""
                 THEN Spread(counted, voucherCounter(data, 1),
                             plusOne(Get(st, voucherCounter(data, 1))))
                 ELSE counted

\* a payload whose id no record has is added as a record
updateEntity_Upserts(st, entity, data) ==
    LET entityArray == Get(st, entity)
    IN  IF entityArray.t # "arr" THEN Throw
        ELSE IF \E i \in DOMAIN entityArray.v :
                    Get(entityArray.v[i], "id") = Get(data, "id")
        THEN Spread(st, entity,
                    Arr([i \in DOMAIN entityArray.v |->
                           IF Get(entityArray.v[i], "id") = Get(data, "id")
                           THEN Merge(entityArray.v[i], data)
                           ELSE entityArray.v[i]]))
        ELSE Spread(st, entity, Arr(Append(entityArray.v, data)))

\* ---- UPDATE_ENTITY, 845-849 ----
updateEntity(st, entity, data) ==
    LET entityArray == Get(st, entity)
    IN  IF entityArray.t # "arr" THEN Throw    \* entityArray.map
        ELSE Spread(st, entity,
                    Arr([i \in DOMAIN entityArray.v |->
                           IF Get(entityArray.v[i], "id") = Get(data, "id")
                           THEN Merge(entityArray.v[i], data)
                           ELSE entityArray.v[i]]))

\* ---- DELETE_ENTITY, 850-854 ----
deleteEntity(st, entity, id) ==
    LET entityArray == Get(st, entity)
    IN  IF entityArray.t # "arr" THEN Throw    \* entityArray.filter
        ELSE Spread(st, entity,
                    Arr(FilterAt(entityArray.v,
                                 {i \in DOMAIN entityArray.v :
                                     Get(entityArray.v[i], "id") # id})))

\* ---- TOGGLE_FAVORITE_COMBINATION, 855-864 ----
CharRank ==
    [c \in {"-", "0", "1", "2", "3", "4", "5", "6", "7", "8", "9"} |->
        CASE c = "-" -> 0 [] c = "0" -> 1 [] c = "1" -> 2 [] c = "2" -> 3
          [] c = "3" -> 4 [] c = "4" -> 5 [] c = "5" -> 6 [] c = "6" -> 7
          [] c = "7" -> 8 [] c = "8" -> 9 [] c = "9" -> 10]

\* a.localeCompare(b) < 0 on character sequences
RECURSIVE localeLess(_, _)
localeLess(a, b) ==
    IF b = << >> THEN FALSE
    ELSE IF a = << >> THEN TRUE
    ELSE IF CharRank[Head(a)] # CharRank[Head(b)]
         THEN CharRank[Head(a)] < CharRank[Head(b)]
         ELSE localeLess(Tail(a), Tail(b))

\* the stable sort with comparator (a, b) => b.date.localeCompare(a.date)
RECURSIVE insertFavorite(_, _)
insertFavorite(sorted, fav) ==
    IF sorted = << >> THEN << fav >>
    ELSE IF localeLess(Get(Head(sorted), "date").v, Get(fav, "date").v)
         THEN << fav >> \o sorted
         ELSE << Head(sorted) >> \o insertFavorite(Tail(sorted), fav)

RECURSIVE sortFavorites(_)
sortFavorites(favs) ==
    IF favs = << >> THEN << >>
    ELSE insertFavorite(sortFavorites(SubSeq(favs, 1, Len(favs) - 1)),
                        favs[Len(favs)])

toggleFavoriteCombination(st, date) ==
    LET favs == Get(st, "favoriteCombinations").v
    IN  IF \E i \in DOMAIN favs : Get(favs[i], "date") = date
        THEN Spread(st, "favoriteCombinations",
                    Arr(FilterAt(favs, {i \in DOMAIN favs :
                                           Get(favs[i], "date") # date})))
        ELSE Spread(st, "favoriteCombinations",
                    Arr(sortFavorites(Append(favs, Obj([date |-> date])))))

\* ---- RESTORE_STATE, 866-950 ----
\* firestoreState && typeof firestoreState === 'object' && 'customers' in it
restoreShapeOk_NoSentinel(firestoreState) == firestoreState.t = "obj"

restoreShapeOk(firestoreState) ==
    firestoreState.t = "obj" /\ Has(firestoreState, "customers")

\* the keys restored with ??  (925-937); all the others are restored with ||
NullishRestoredKeys_None == {}

NullishRestoredKeys == CounterKeys

\* the overtime collections are restored as well
RestoredKeys_WithOvertime ==
    CollectionKeys \cup CounterKeys \cup PlannerScalarKeys
        \cup {"overtimeRecords", "overtimePressRecords"}

\* the keys of the object literal newState (872-944)
RestoredKeys == CollectionKeys \cup CounterKeys \cup PlannerScalarKeys

restoredField(firestoreState, defaultState, key) ==
    IF key \in NullishRestoredKeys
    THEN Nullish(Get(firestoreState, key), Get(defaultState, key))
    ELSE OrElse(Get(firestoreState, key), Get(defaultState, key))

\* processState(newState), 870-946
restoredAggregate(firestoreState) ==
    processState(Obj([key \in RestoredKeys |->
                        restoredField(firestoreState, getInitialState, key)]))

restoreState(st, firestoreState) ==
    IF restoreShapeOk(firestoreState)
    THEN restoredAggregate(firestoreState)
    ELSE st

\* ---- the switch ----
KnownActionTypes ==
    { "ADD_PLANNER_ENTITY", "REMOVE_PLANNER_ENTITY", "HARD_RESET_TRANSACTIONS",
      "BATCH_UPDATE", "ADD_ENTITY", "UPDATE_ENTITY", "DELETE_ENTITY",
      "TOGGLE_FAVORITE_COMBINATION", "SET_PLANNER_DATA", "RESTORE_STATE" }

RECURSIVE dataReducer(_, _)
RECURSIVE reduceBatch(_, _)

\* the list is folded from its end
RECURSIVE reduceBatch_Reversed(_, _)
reduceBatch_Reversed(st, list) ==
    IF list = << >> \/ st = Throw THEN st
    ELSE dataReducer(reduceBatch_Reversed(st, Tail(list)), Head(list))

\* action.payload.reduce((currentState, currentAction) => dataReducer(...), state)
reduceBatch(st, list) ==
    IF list = << >> \/ st = Throw THEN st
    ELSE reduceBatch(dataReducer(st, Head(list)), Tail(list))

dataReducer(st, action) ==
    CASE action.type = "ADD_PLANNER_ENTITY" ->
            addPlannerEntity(st, action.entityType, action.entityId)
      [] action.type = "REMOVE_PLANNER_ENTITY" ->
            removePlannerEntity(st, action.entityType, action.entityId)
      [] action.type = "HARD_RESET_TRANSACTIONS" -> hardResetTransactions(st)
      [] action.type = "BATCH_UPDATE" -> reduceBatch(st, action.list)
      [] action.type = "ADD_ENTITY" -> addEntity(st, action.entity, action.data)
      [] action.type = "UPDATE_ENTITY" ->
            updateEntity(st, action.entity, action.data)
      [] action.type = "DELETE_ENTITY" -> deleteEntity(st, action.entity, action.id)
      [] action.type = "TOGGLE_FAVORITE_COMBINATION" ->
            toggleFavoriteCombination(st, action.date)
      [] action.type = "SET_PLANNER_DATA" -> Merge(st, action.payload)
      [] action.type = "RESTORE_STATE" -> restoreState(st, action.payload)
      [] OTHER -> st

\* the reducer hands back the very object it was given, so that React sees no
\* state change (768, 816-819 with nothing to fold, 949, 951)
RECURSIVE returnsSameObject(_, _)
returnsSameObject(st, action) ==
    CASE action.type = "ADD_PLANNER_ENTITY" ->
            includes(plannerCurrentIds(st, action.entityType), action.entityId)
      [] action.type = "BATCH_UPDATE" ->
            \A i \in DOMAIN action.list : returnsSameObject(st, action.list[i])
      [] action.type = "RESTORE_STATE" -> ~restoreShapeOk(action.payload)
      [] action.type \in KnownActionTypes -> FALSE
      [] OTHER -> TRUE

-----------------------------------------------------------------------------
(* The UI handlers that build the dispatched actions *)

\* the inputs the handlers are given
Dates == { Str(<< "2024-01", "-05" >>) }
TaskStamps == { "t1", "t2" }
Today == Str(<< "2024-01", "-31" >>)

\* the records of a collection, << >> when the property holds no array
recordsOf(st, entity) ==
    IF Get(st, entity).t = "arr" THEN Get(st, entity).v ELSE << >>

\* TasksManagement.handleAddTask, src/components/SetupModule.tsx 627-636
handleAddTask(stamp, assigneeId) ==
    AddEntity("hrTasks",
              Obj([id |-> Str(<< "TASK-", stamp >>),
                   description |-> S("call"),
                   isDone |-> Bool(FALSE),
                   comments |-> Str(<< >>),
                   creationDate |-> Today,
                   assignedToId |-> OrElse(assigneeId, Undef),
                   assignedToName |->
                       IF Truthy(assigneeId) THEN S("assignee") ELSE Undef]))

\* TasksManagement.toggleDone, src/components/SetupModule.tsx 638-640
toggleDone(task) ==
    UpdateEntity("hrTasks",
                 Merge(task,
                       Obj([isDone |-> Bool(~Get(task, "isDone").v),
                            completionDate |->
                                IF ~Get(task, "isDone").v THEN Today ELSE Undef])))

\* handleSaveAttendance, src/components/AttendanceRegister.tsx 163-173
handleSaveAttendance(employeeId, date, status, reason, recordId) ==
    LET id == IF Truthy(recordId) THEN recordId
              ELSE Str(<< "ATT-" >> \o employeeId.v \o << "-" >> \o date.v)
        record == Obj([id |-> id, employeeId |-> employeeId, date |-> date,
                       status |-> status, reason |-> reason])
    IN  IF Truthy(recordId) THEN UpdateEntity("attendanceRecords", record)
        ELSE AddEntity("attendanceRecords", record)

\* handleDeleteAttendance, src/components/AttendanceRegister.tsx 175-178
handleDeleteAttendance(recordId) == DeleteEntity("attendanceRecords", recordId)

\* attendanceMap.get(key) || null, src/components/AttendanceRegister.tsx 156-161:
\* the map keeps the last record of the collection with that employee and date
cellRecord(st, entity, employeeId, date) ==
    LET recs == recordsOf(st, entity)
        hits == {i \in DOMAIN recs : /\ Get(recs[i], "employeeId") = employeeId
                                     /\ Get(recs[i], "date") = date}
    IN  IF hits = {} THEN Null
        ELSE recs[CHOOSE i \in hits : \A j \in hits : j <= i]

\* handleOvertimeChange, src/components/OvertimeRegister.tsx 85-111, and
\* handleGridChange, src/unnamed/part_000 71-83: the actions dispatched for
\* one cell edit (hours = 0 stands for an empty or zero entry)
overtimeCellEdit(st, entity, idPrefix, employeeId, date, hours) ==
    LET existing == cellRecord(st, entity, employeeId, date)
        record == Obj([id |-> IF Truthy(existing) THEN Get(existing, "id")
                              ELSE Str(<< idPrefix >> \o employeeId.v
                                       \o << "-" >> \o date.v),
                       employeeId |-> employeeId, date |-> date,
                       hours |-> Num(hours)])
    IN  IF hours = 0
        THEN IF Truthy(existing)
             THEN << DeleteEntity(entity, Get(existing, "id")) >>
             ELSE << >>
        ELSE IF Truthy(existing) THEN << UpdateEntity(entity, record) >>
        ELSE << AddEntity(entity, record) >>

handleOvertimeChange(st, employeeId, date, hours) ==
    overtimeCellEdit(st, "overtimeRecords", "OT-", employeeId, date, hours)

handleGridChange(st, employeeId, date, hours) ==
    overtimeCellEdit(st, "overtimePressRecords", "OTP-", employeeId, date, hours)

-----------------------------------------------------------------------------
(* The reducer applied on its own: the aggregates that sequences of actions   *)
(* reach from initialState, and the result of every action on each of them.  *)

\* actions applied one after another, starting from initialState
MaxReducerSteps == 3

\* a document written by an earlier version of the program: no expense
\* accounts, employees stored as null, a counter at 0, an item whose
\* nextBaleNumber is out of date, a collection the aggregate does not know
LegacyItem ==
    Obj([id |-> S("I1"), openingStock |-> Num(2), nextBaleNumber |-> Num(1)])

LegacyDoc ==
    Obj([key \in {"customers", "employees", "items", "productions",
                  "nextHRTaskId", "nextInvoiceNumber", "overtimeRecords"} |->
           CASE key = "customers" -> Arr(<< Obj([id |-> S("C1")]) >>)
             [] key = "employees" -> Null
             [] key = "items" -> Arr(<< LegacyItem >>)
             [] key = "productions" ->
                   Arr(<< Obj([id |-> S("P1"), itemId |-> S("I1"),
                               quantityProduced |-> Num(3)]) >>)
             [] key = "nextHRTaskId" -> Num(0)
             [] key = "nextInvoiceNumber" -> Num(2)
             [] key = "overtimeRecords" -> Arr(<< >>)])

\* payloads that are no aggregate
InvalidPayloads == { Null, Num(7), S("text"), Arr(<< >>), EmptyObj }

\* obj without the property key
Without(obj, key) == Obj([k \in (DOMAIN obj.v) \ {key} |-> obj.v[k]])

\* the top-level keys on which the payloads are varied
VariedKeys == { "customers", "expenseAccounts", "hrTasks", "nextHRTaskId" }

\* the document of the aggregate st with the collections of the two
\* overtime registers (OvertimeRegister.tsx 58-65, 97-108)
OvertimeDoc(st) ==
    LET record(prefix) ==
            Obj([id |-> Str(<< prefix, "E1", "-", "2024-01", "-05" >>),
                 employeeId |-> S("E1"), date |-> Str(<< "2024-01", "-05" >>),
                 hours |-> Num(2)])
    IN  Spread(Spread(convertUndefinedToNull(st), "overtimeRecords",
                      Arr(<< record("OT-") >>)),
               "overtimePressRecords", Arr(<< record("OTP-") >>))

\* the payloads RESTORE_STATE is tried with on the aggregate st
RestorePayloads(st) ==
    InvalidPayloads
    \cup { LegacyDoc, convertUndefinedToNull(st), OvertimeDoc(st) }
    \cup { Without(convertUndefinedToNull(st), key) : key \in VariedKeys }
    \cup { Spread(convertUndefinedToNull(st), key, value) :
              key \in VariedKeys \ {"customers"}, value \in {Null, Num(0)} }

rBase == IF rState = Throw THEN rPrev ELSE rState

ReducerIdle ==
    /\ rPrev = initialState
    /\ rAction = [type |-> "@@INIT"]
    /\ rState = initialState
    /\ rSteps = 0
    /\ rLog = << >>

Reduce(action) ==
    /\ rSteps < MaxReducerSteps
    /\ rSteps' = rSteps + 1
    /\ rPrev' = rBase
    /\ rAction' = action
    /\ rState' = dataReducer(rBase, action)
    /\ UNCHANGED << rLog, syncVars, convertVars, payrollVars >>

ReduceAddTask ==
    /\ \E stamp \in TaskStamps, assigneeId \in {Str(<< >>), S("u1")} :
          /\ \A i \in DOMAIN recordsOf(rBase, "hrTasks") :
                Get(recordsOf(rBase, "hrTasks")[i], "id")
                    # Str(<< "TASK-", stamp >>)
          /\ Reduce(handleAddTask(stamp, assigneeId))

ReduceToggleTask ==
    \E i \in DOMAIN recordsOf(rBase, "hrTasks") :
        Reduce(toggleDone(recordsOf(rBase, "hrTasks")[i]))

ReduceAttendance ==
    \E employeeId \in {S("E1")}, date \in Dates :
        LET record == cellRecord(rBase, "attendanceRecords", employeeId, date)
        IN  \/ /\ \E status \in {S("Absent"), S("HalfDay")} :
                     Reduce(handleSaveAttendance(
                                employeeId, date, status, S("reason"),
                                IF Truthy(record) THEN Get(record, "id")
                                ELSE Null))
            \/ /\ Truthy(record)
               /\ Reduce(handleDeleteAttendance(Get(record, "id")))

ReduceOvertime ==
    \E employeeId \in {S("E1")}, date \in Dates, hours \in {0, 2} :
        \E action \in
              { handleOvertimeChange(rBase, employeeId, date, hours)[i] :
                   i \in DOMAIN handleOvertimeChange(rBase, employeeId, date, hours) }
              \cup
              { handleGridChange(rBase, employeeId, date, hours)[i] :
                   i \in DOMAIN handleGridChange(rBase, employeeId, date, hours) } :
            Reduce(action)

\* the production tool: the extra bales with their rate, the workers
\* selected and the date; the pools are multiples of the team sizes
TeamInputs ==
    [extraBales : {6}, ratePerExtra : {2},
     selectedWorkerIds : { << S("E1") >>, << S("E1"), S("E2") >> },
     date : Dates]

\* handleSaveProductionTeam, src/unnamed/part_000 85-118, confirmed in the
\* dialog: the list of the batch, << >> when the handler returns before it
\* dispatches
handleSaveProductionTeam(st, toolData) ==
    LET totalPool == toolData.extraBales * toolData.ratePerExtra
        individualShare == totalPool \div Len(toolData.selectedWorkerIds)
        action(workerId) ==
            LET existing == cellRecord(st, "overtimePressRecords", workerId,
                                       toolData.date)
                record ==
                    Obj([id |-> IF Truthy(existing) THEN Get(existing, "id")
                                ELSE Str(<< "OTP-" >> \o workerId.v
                                         \o << "-" >> \o toolData.date.v),
                         employeeId |-> workerId, date |-> toolData.date,
                         hours |-> OrElse(Get(existing, "hours"), Num(0)),
                         amount |->
                             Num(OrElse(Get(existing, "amount"), Num(0)).v
                                     + individualShare)])
            IN  IF Truthy(existing)
                THEN UpdateEntity("overtimePressRecords", record)
                ELSE AddEntity("overtimePressRecords", record)
    IN  IF toolData.extraBales <= 0 \/ toolData.selectedWorkerIds = << >>
        THEN << >>
        ELSE [i \in DOMAIN toolData.selectedWorkerIds |->
                 action(toolData.selectedWorkerIds[i])]

ReduceDistribution ==
    \E toolData \in TeamInputs :
        /\ handleSaveProductionTeam(rBase, toolData) # << >>
        /\ Reduce(BatchUpdate(handleSaveProductionTeam(rBase, toolData)))

ReducePlanner ==
    \E entityType \in {"customer"} :
        \/ Reduce(AddPlannerEntity(entityType, S("C1")))
        \/ Reduce(RemovePlannerEntity(entityType, S("C1")))

ReduceRestore ==
    \E payload \in RestorePayloads(rBase) : Reduce(RestoreState(payload))

ReduceUnknown == Reduce([type |-> "NOT_AN_ACTION"])

ReducerNext ==
    \/ ReduceAddTask
    \/ ReduceToggleTask
    \/ ReduceAttendance
    \/ ReduceOvertime
    \/ ReduceDistribution
    \/ ReducePlanner
    \/ ReduceRestore
    \/ ReduceUnknown

-----------------------------------------------------------------------------
(* The entity actions applied on their own: additions, updates, deletions,   *)
(* batches and the hard reset, from initialState.                            *)

\* handlePostInvoice, src/components/PostingModule.tsx 175-281: the actions of
\* the batch that posts selectedInvoice, << >> when the handler returns before
\* it dispatches.  t holds the totals that lines 122-173 compute from the item
\* details of the form: totalItemValueInDollar, totalCOGS, updatedItems, and
\* the form fields freightAmountNum, customChargesNum, freightForwarderId.
handlePostInvoice(st, selectedInvoice, t, stamp) ==
    LET invoiceId == Get(selectedInvoice, "id")
        voucherId == invoiceId
        accountId(name) ==
            LET accounts == recordsOf(st, "payableAccounts")
                hits == {i \in DOMAIN accounts :
                            Get(accounts[i], "name") = S(name)}
            IN  IF hits = {} THEN Undef
                ELSE Get(accounts[CHOOSE i \in hits : \A j \in hits : i <= j],
                         "id")
        payableAccountId == accountId("Accounts Payable")
        customsPayableAccountId == accountId("Customs Charges Payable")
        entry(id, voucher, account, debit, credit) ==
            AddEntity("journalEntries",
                      Obj([id |-> Str(id), voucherId |-> voucher,
                           entryType |-> S("Journal"), account |-> account,
                           debit |-> Num(debit), credit |-> Num(credit)]))
        commissionAmountNum ==
            OrElse(Get(selectedInvoice, "commissionAmount"), Num(0)).v
        cogsVoucherId == Str(<< "C", "O", "G", "S", "-" >> \o invoiceId.v)
    IN  IF ~Truthy(payableAccountId) \/ ~Truthy(customsPayableAccountId)
        THEN << >>
        ELSE
           << entry(<< "je-d-" >> \o invoiceId.v, voucherId, S("AR-001"),
                    t.totalItemValueInDollar + t.freightAmountNum
                        + t.customChargesNum, 0) >>
        \o (IF t.totalItemValueInDollar > 0
            THEN << entry(<< "je-c-sales-" >> \o invoiceId.v, voucherId,
                          S("REV-001"), 0, t.totalItemValueInDollar) >>
            ELSE << >>)
        \o (IF /\ t.freightAmountNum > 0
               /\ Truthy(t.freightForwarderId)
               /\ t.freightForwarderId # S("FFW-000")
            THEN << entry(<< "je-c-freight-" >> \o invoiceId.v, voucherId,
                          payableAccountId, 0, t.freightAmountNum) >>
            ELSE << >>)
        \o (IF t.customChargesNum > 0
            THEN << entry(<< "je-c-customs-" >> \o invoiceId.v, voucherId,
                          customsPayableAccountId, 0, t.customChargesNum) >>
            ELSE << >>)
        \o (IF /\ commissionAmountNum > 0
               /\ Truthy(Get(selectedInvoice, "commissionAgentId"))
            THEN << entry(<< "je-d-com-s-", stamp >>, voucherId, S("EXP-008"),
                          commissionAmountNum, 0),
                    entry(<< "je-c-com-s-", stamp >>, voucherId, S("AP-001"),
                          0, commissionAmountNum) >>
            ELSE << >>)
        \o (IF t.totalCOGS > 0
            THEN << entry(<< "je-d-cogs-" >> \o cogsVoucherId.v, cogsVoucherId,
                          S("EXP-011"), t.totalCOGS, 0),
                    entry(<< "je-c-inv-" >> \o cogsVoucherId.v, cogsVoucherId,
                          S("INV-FG-001"), 0, t.totalCOGS) >>
            ELSE << >>)
        \o << UpdateEntity("salesInvoices",
                           Merge(selectedInvoice,
                                 Obj([items |-> t.updatedItems,
                                      status |-> S("Posted")]))) >>

\* the action applied as by Reduce, and written to the history
Logged(action) ==
    /\ rSteps < MaxReducerSteps
    /\ rSteps' = rSteps + 1
    /\ rPrev' = rBase
    /\ rAction' = action
    /\ rState' = dataReducer(rBase, action)
    /\ rLog' = Append(rLog, action)
    /\ UNCHANGED << syncVars, convertVars, payrollVars >>

\* the collections that records are added to, and the ids of the records
EntityIds ==
    [ salesInvoices |-> { S("1"), S("2") },
      guaranteeCheques |-> { S("1") },
      customers |-> { S("1") } ]

\* journal entries of the four voucher series, one whose id prefix belongs to
\* another series than its type, and a second receipt voucher
JournalInputs ==
    { Obj([id |-> Str(<< "je-", type >> \o voucher),
           voucherId |-> Str(voucher), entryType |-> S(type)]) :
        << type, voucher >> \in
            { << "Receipt", << "R", "V", "-", "1" >> >>,
              << "Receipt", << "R", "V", "-", "2" >> >>,
              << "Journal", << "R", "V", "-", "1" >> >>,
              << "Payment", << "P", "V", "-", "1" >> >>,
              << "Expense", << "E", "V", "-", "1" >> >>,
              << "Journal", << "J", "V", "-", "1" >> >> } }

\* the totals of the posting form
PostingTotals ==
    { [totalItemValueInDollar |-> 0, totalCOGS |-> 0, freightAmountNum |-> 0,
       customChargesNum |-> 0, freightForwarderId |-> Str(<< >>),
       updatedItems |-> Arr(<< >>)],
      [totalItemValueInDollar |-> 100, totalCOGS |-> 60, freightAmountNum |-> 10,
       customChargesNum |-> 5, freightForwarderId |-> S("FFW-001"),
       updatedItems |-> Arr(<< Obj([itemId |-> S("I1"), quantity |-> Num(2),
                                   rate |-> Num(50)]) >>)] }

EntAdd ==
    \E entity \in DOMAIN EntityIds : \E id \in EntityIds[entity] :
        Logged(AddEntity(entity, Obj([id |-> id, status |-> S("Unposted")])))

EntAddJournal ==
    \E entry \in JournalInputs : Logged(AddEntity("journalEntries", entry))

EntUpdate ==
    \E entity \in DOMAIN EntityIds : \E id \in EntityIds[entity] :
        Logged(UpdateEntity(entity, Obj([id |-> id, status |-> S("Posted")])))

EntDelete ==
    \E entity \in DOMAIN EntityIds : \E id \in EntityIds[entity] :
        Logged(DeleteEntity(entity, id))

\* BATCH_UPDATE: the posting of an invoice of the aggregate, the two lines of
\* one voucher, and the empty list
EntBatch ==
    \E list \in
          { << >> }
          \cup { handlePostInvoice(rBase, recordsOf(rBase, "salesInvoices")[i],
                                   t, "t1") :
                    i \in DOMAIN recordsOf(rBase, "salesInvoices"),
                    t \in PostingTotals }
          \cup { << AddEntity("journalEntries", debit),
                    AddEntity("journalEntries", credit) >> :
                    debit, credit \in
                        { e \in JournalInputs :
                            Get(e, "voucherId") = Str(<< "R", "V", "-", "1" >>) } } :
        Logged(BatchUpdate(list))

EntHardReset == Logged(HardResetTransactions)

EntityNext ==
    \/ EntAdd
    \/ EntAddJournal
    \/ EntUpdate
    \/ EntDelete
    \/ EntBatch
    \/ EntHardReset

-----------------------------------------------------------------------------
(* The posting operations: an unposted sales invoice is posted, a vehicle is *)
(* saved with a charge.                                                      *)

\* what the posting form holds when Post is pressed: the value of the
\* items, their cost, the freight with its forwarder ('' for none,
\* 'FFW-000' or a forwarder of the list) and the customs charges
PostingForms ==
    { [totalItemValueInDollar |-> items, totalCOGS |-> (items * 3) \div 5,
       freightAmountNum |-> freight, customChargesNum |-> customs,
       freightForwarderId |-> forwarder,
       updatedItems |-> Arr(<< Obj([itemId |-> S("I1"), quantity |-> Num(2),
                                   rate |-> Num(items \div 2)]) >>)] :
        items \in {0, 100}, freight \in {0, 10}, customs \in {0, 5},
        forwarder \in { Str(<< >>), S("FFW-000"), S("FFW-001") } }

\* the invoices entered before: one without and one with a commission
UnpostedInvoices ==
    << Obj([id |-> S("1"), status |-> S("Unposted"), customerId |-> S("C1")]),
       Obj([id |-> S("2"), status |-> S("Unposted"), customerId |-> S("C1"),
            commissionAmount |-> Num(7), commissionAgentId |-> S("CA1")]) >>

PostingAggregate ==
    reduceBatch(initialState,
                [i \in DOMAIN UnpostedInvoices |->
                    AddEntity("salesInvoices", UnpostedInvoices[i])])

\* VehicleManagement.handleSave, src/unnamed/part_002 1099-1114, with the
\* plate number and the model entered: the actions it dispatches, one after
\* another.  newId is what generateVehicleId(state.vehicles) returns.
handleSave(editingVehicle, newId, chargeData, stamp) ==
    LET voucherId == Str(<< "VEH-CHG-", stamp >>)
        entry(id, account, debit, credit, entityId) ==
            AddEntity("journalEntries",
                      Obj([id |-> Str(<< id >> \o voucherId.v),
                           voucherId |-> voucherId, date |-> Today,
                           entryType |-> S("Journal"), account |-> S(account),
                           debit |-> Num(debit), credit |-> Num(credit),
                           entityId |-> entityId]))
    IN  (IF Truthy(Get(editingVehicle, "id"))
         THEN << UpdateEntity("vehicles", editingVehicle) >>
         ELSE << AddEntity("vehicles", Spread(editingVehicle, "id", newId)) >>)
        \o (IF chargeData.amount # 0 /\ Truthy(chargeData.employeeId)
            THEN << entry("je-d-", "AP-001", chargeData.amount, 0,
                          chargeData.employeeId),
                    entry("je-c-", "EXP-010", 0, chargeData.amount, Undef) >>
            ELSE << >>)

\* Post: handlePostInvoice on an invoice of the unposted list
PostInvoice ==
    \E i \in DOMAIN recordsOf(rBase, "salesInvoices"), t \in PostingForms :
        LET selectedInvoice == recordsOf(rBase, "salesInvoices")[i]
            actions == handlePostInvoice(rBase, selectedInvoice, t, "t1")
        IN  /\ Get(selectedInvoice, "status") = S("Unposted")
            /\ actions # << >>
            /\ Reduce(BatchUpdate(actions))

\* Save Vehicle: the dispatches of handleSave applied in their order; rAction
\* keeps them as one list
SaveVehicle ==
    \E stamp \in TaskStamps, amount \in {0, 25},
       employeeId \in { Str(<< >>), S("E1") } :
        LET vehicles == recordsOf(rBase, "vehicles")
            editingVehicle ==
                IF vehicles = << >>
                THEN Obj([plateNumber |-> S("P1"), model |-> S("M1")])
                ELSE vehicles[1]
            newId == Str(<< "VEH-", ToString(Len(vehicles) + 1) >>)
            actions == handleSave(editingVehicle, newId,
                                  [amount |-> amount, employeeId |-> employeeId],
                                  stamp)
        IN  /\ rSteps < MaxReducerSteps
            /\ rSteps' = rSteps + 1
            /\ rPrev' = rBase
            /\ rAction' = [type |-> "handleSave", list |-> actions]
            /\ rState' = reduceBatch(rBase, actions)
            /\ UNCHANGED << rLog, syncVars, convertVars, payrollVars >>

PostingNext ==
    \/ PostInvoice
    \/ SaveVehicle

-----------------------------------------------------------------------------
(* SalaryCalculator.reportData, src/components/SalaryCalculator.tsx 36-76.   *)
(* The amounts are exact fractions [n, d] in lowest terms; the rounding of   *)
(* the double arithmetic (relative error 2^-53) is not modelled.  Time is    *)
(* counted in hours.                                                         *)

\* the fraction n / d in lowest terms, d > 0
Frac(n, d) ==
    LET RECURSIVE gcd(_, _)
        gcd(a, b) == IF b = 0 THEN a ELSE gcd(b, a % b)
        g == gcd(IF n < 0 THEN -n ELSE n, d)
    IN  [n |-> n \div g, d |-> d \div g]

\* a * b
Times(a, b) == Frac(a.n * b.n, a.d * b.d)

\* String(n).padStart(2, '0'), for the months and the days of the month
TwoDigits ==
    << "01", "02", "03", "04", "05", "06", "07", "08", "09", "10", "11",
       "12", "13", "14", "15", "16", "17", "18", "19", "20", "21", "22",
       "23", "24", "25", "26", "27", "28", "29", "30", "31" >>

\* the text YYYY-MM-DD of a date (month 1..12), as the date inputs and
\* toISOString().split('T')[0] give it; its parts are YYYY-MM and -DD
isoDate(year, month, day) ==
    Str(<< ToString(year) \o "-" \o TwoDigits[month], "-" \o TwoDigits[day] >>)

\* the days from 1970-01-01 to the given day of the month (0 = January) of
\* the year; a month or a day beyond its range runs on into the next months,
\* as in new Date(year, month, day)
dayNumber(year, month, day) ==
    LET m == (month % 12) + 1
        y == year + (month \div 12) - (IF m <= 2 THEN 1 ELSE 0)
        era == y \div 400
        yoe == y - era * 400
        doy == (153 * (IF m > 2 THEN m - 3 ELSE m + 9) + 2) \div 5
    IN  era * 146097 + yoe * 365 + yoe \div 4 - yoe \div 100 + doy
            - 719468 + (day - 1)

\* the year, the month (1..12) and the day that new Date(text) reads from a
\* date-only text
dateOf(text) ==
    LET yearMonth ==
            CHOOSE c \in [year : 2015..2030, month : 1..12] :
                ToString(c.year) \o "-" \o TwoDigits[c.month] = text.v[1]
    IN  [year |-> yearMonth.year, month |-> yearMonth.month,
         day |-> CHOOSE d \in 1..31 : "-" \o TwoDigits[d] = text.v[2]]

\* 24 * 365.25, the divisor 1000 * 60 * 60 * 24 * 365.25 in hours
HoursPerYear == 8766

\* the years of service are not held at 0
yearsOfService_Unclamped(employee, year, month, tz) ==
    LET joined == dateOf(Get(employee, "joiningDate"))
        joinDate == 24 * dayNumber(joined.year, joined.month - 1, joined.day)
        endDate == 24 * dayNumber(year, month + 1, 0) - tz
    IN  Frac(endDate - joinDate, HoursPerYear)

\* lines 47-49.  new Date(employee.joiningDate) takes the date-only text as
\* midnight UTC; new Date(year, month + 1, 0) is midnight of the last day
\* of the month in the time zone of the browser, tz hours east of UTC.
yearsOfService(employee, year, month, tz) ==
    LET joined == dateOf(Get(employee, "joiningDate"))
        joinDate == 24 * dayNumber(joined.year, joined.month - 1, joined.day)
        endDate == 24 * dayNumber(year, month + 1, 0) - tz
    IN  Frac(IF endDate - joinDate > 0 THEN endDate - joinDate ELSE 0,
             HoursPerYear)

\* the 30 days' wage are accrued for the years beyond the fifth only
gratuityAccrued_Tiered(employee, years) ==
    IF Get(employee, "employeeType") = S("Labour")
    THEN Times(years, Frac(600, 1))
    ELSE LET dailyWage == Frac(Get(employee, "basicSalary").v, 30)
             first == Times(dailyWage, Frac(21 * 5, 1))
             beyond == Times(Times(dailyWage, Frac(30, 1)),
                             Frac(years.n - 5 * years.d, years.d))
         IN  IF years.n >= years.d
             THEN IF years.n <= 5 * years.d
                  THEN Times(Times(dailyWage, Frac(21, 1)), years)
                  ELSE Frac(first.n * beyond.d + beyond.n * first.d,
                            first.d * beyond.d)
             ELSE Frac(0, 1)

\* the gratuity is accrued from the first day
gratuityAccrued_FromFirstDay(employee, years) ==
    IF Get(employee, "employeeType") = S("Labour")
    THEN Times(years, Frac(600, 1))
    ELSE LET dailyWage == Frac(Get(employee, "basicSalary").v, 30)
         IN  IF years.n <= 5 * years.d
             THEN Times(Times(dailyWage, Frac(21, 1)), years)
             ELSE Times(Times(dailyWage, Frac(30, 1)), years)

\* lines 51-60
gratuityAccrued(employee, years) ==
    IF Get(employee, "employeeType") = S("Labour")
    THEN Times(years, Frac(600, 1))
    ELSE LET dailyWage == Frac(Get(employee, "basicSalary").v, 30)
         IN  IF years.n >= years.d
             THEN IF years.n <= 5 * years.d
                  THEN Times(Times(dailyWage, Frac(21, 1)), years)
                  ELSE Times(Times(dailyWage, Frac(30, 1)), years)
             ELSE Frac(0, 1)

\* line 63
leaveSalaryAccrued(years) == Times(years, Frac(600, 1))

\* the records of every employee are counted
deductions_Everyone(st, employee, year, month) ==
    LET monthStr == << ToString(year) \o "-" \o TwoDigits[month + 1] >>
        records == Get(st, "attendanceRecords").v
        attendanceForMonth ==
            { i \in DOMAIN records :
                startsWith(Get(records[i], "date").v, monthStr) }
        absentDays ==
            Cardinality({ i \in attendanceForMonth :
                            Get(records[i], "status") = S("Absent") })
        halfDays ==
            Cardinality({ i \in attendanceForMonth :
                            Get(records[i], "status") = S("HalfDay") })
    IN  Times(Frac(2 * absentDays + halfDays, 2),
              Frac(Get(employee, "basicSalary").v, 30))

\* lines 38 and 66-76
deductions(st, employee, year, month) ==
    LET monthStr == << ToString(year) \o "-" \o TwoDigits[month + 1] >>
        records == Get(st, "attendanceRecords").v
        attendanceForMonth ==
            { i \in DOMAIN records :
                /\ Get(records[i], "employeeId") = Get(employee, "id")
                /\ startsWith(Get(records[i], "date").v, monthStr) }
        absentDays ==
            Cardinality({ i \in attendanceForMonth :
                            Get(records[i], "status") = S("Absent") })
        halfDays ==
            Cardinality({ i \in attendanceForMonth :
                            Get(records[i], "status") = S("HalfDay") })
        unpaidDays == Frac(2 * absentDays + halfDays, 2)
        dailyRate == Frac(Get(employee, "basicSalary").v, 30)
    IN  Times(unpaidDays, dailyRate)

\* lines 40-43
employeesToProcess(st, filterEmployeeId) ==
    LET employees == Get(st, "employees").v
    IN  FilterAt(employees,
                 { i \in DOMAIN employees :
                     /\ Get(employees[i], "status") = S("Active")
                     /\ Truthy(filterEmployeeId) =>
                           Get(employees[i], "id") = filterEmployeeId })

\* a + b
Plus(a, b) == Frac(a.n * b.d + b.n * a.d, a.d * b.d)

\* lines 78-92: 7 for every hour of the overtime records of the month, and
\* for every press record of the month its amount when that is above 0 and
\* 7 for every hour of it otherwise; state.overtimeRecords.filter and
\* state.overtimePressRecords.filter throw when the aggregate holds no such
\* array
overtimePay(st, employee, year, month) ==
    LET monthStr == << ToString(year) \o "-" \o TwoDigits[month + 1] >>
        ofMonth(records) ==
            { i \in DOMAIN records :
                /\ Get(records[i], "employeeId") = Get(employee, "id")
                /\ startsWith(Get(records[i], "date").v, monthStr) }
        RECURSIVE sum(_)
        sum(amounts) ==
            IF amounts = << >> THEN 0 ELSE Head(amounts) + sum(Tail(amounts))
        hourly(records) ==
            LET kept == FilterAt(records, ofMonth(records))
            IN  [i \in DOMAIN kept |-> Get(kept[i], "hours").v * 7]
        press(records) ==
            LET kept == FilterAt(records, ofMonth(records))
            IN  [i \in DOMAIN kept |->
                   IF /\ Get(kept[i], "amount").t = "num"
                      /\ Get(kept[i], "amount").v > 0
                   THEN Get(kept[i], "amount").v
                   ELSE Get(kept[i], "hours").v * 7]
        otRecords == Get(st, "overtimeRecords")
        otPressRecords == Get(st, "overtimePressRecords")
    IN  IF otRecords.t # "arr" \/ otPressRecords.t # "arr" THEN Throw
        ELSE Frac(sum(hourly(otRecords.v)) + sum(press(otPressRecords.v)), 1)

\* line 94, the netPayableSalary of the row of the employee (line 103)
netPayableSalary(st, employee, year, month) ==
    LET otAmount == overtimePay(st, employee, year, month)
        advances == OrElse(Get(employee, "advances"), Num(0)).v
        paid == Get(employee, "basicSalary").v + Get(employee, "allowance").v
                    + Get(employee, "otherExps").v - advances
        unpaid == deductions(st, employee, year, month)
    IN  IF otAmount = Throw THEN Throw
        ELSE Plus(Plus(Frac(paid, 1), otAmount), Frac(-unpaid.n, unpaid.d))

\* SettlementRegister stats, src/unnamed/part_002 50-72, for the selected
\* employee; today is new Date().getTime() in hours
stats(selectedEmployee, today) ==
    LET joined == dateOf(Get(selectedEmployee, "joiningDate"))
        joinDate == 24 * dayNumber(joined.year, joined.month - 1, joined.day)
        yearsOfServiceNow ==
            Frac(IF today - joinDate > 0 THEN today - joinDate ELSE 0,
                 HoursPerYear)
        totalAccruedGratuity ==
            IF Get(selectedEmployee, "employeeType") = S("Labour")
            THEN Times(yearsOfServiceNow, Frac(600, 1))
            ELSE Frac(0, 1)
        totalAccruedLeave == Times(yearsOfServiceNow, Frac(600, 1))
        due(accrued, paid) ==
            LET rest == Plus(accrued, Frac(-OrElse(paid, Num(0)).v, 1))
            IN  IF rest.n > 0 THEN rest ELSE Frac(0, 1)
    IN  [yearsOfService |-> yearsOfServiceNow,
         totalAccruedGratuity |-> totalAccruedGratuity,
         dueGratuity |-> due(totalAccruedGratuity,
                             Get(selectedEmployee, "gratuityPaid")),
         totalAccruedLeave |-> totalAccruedLeave,
         dueLeave |-> due(totalAccruedLeave,
                          Get(selectedEmployee, "leaveSalaryPaid"))]

\* handleMonthChange, lines 110-116: setMonth(getMonth() + offset) keeps the
\* day of the month, and runs on into the next month when the month is
\* shorter than that
handleMonthChange(prev, offset) ==
    LET year == prev.year + ((prev.month + offset) \div 12)
        month == (prev.month + offset) % 12
        days == dayNumber(year, month + 1, 1) - dayNumber(year, month, 1)
    IN  IF prev.day <= days
        THEN [year |-> year, month |-> month, day |-> prev.day]
        ELSE [year |-> year + ((month + 1) \div 12),
              month |-> (month + 1) % 12, day |-> prev.day - days]

\* the salary calculator and the attendance register are not mounted
PayrollIdle ==
    /\ currentDate = [year |-> 2024, month |-> 0, day |-> 15]
    /\ timeZone = 0
    /\ selectedCell = Null

\* the months of the year that are selected: January to the month MaxMonth
MaxMonth == 2

\* the employees of the imported sheet (SetupModule.tsx 215-226)
Staff ==
    LET employee(id, type, joiningDate, basicSalary, status) ==
            Obj([id |-> S(id), employeeType |-> S(type),
                 joiningDate |-> joiningDate, basicSalary |-> Num(basicSalary),
                 allowance |-> Num(0), otherExps |-> Num(0),
                 status |-> S(status)])
    IN  << employee("E1", "Labour", isoDate(2022, 1, 31), 1500, "Active"),
           employee("E2", "Office", isoDate(2021, 3, 31), 3000, "Active"),
           employee("E3", "Office", isoDate(2018, 3, 31), 3000, "Active"),
           employee("E4", "Labour", isoDate(2024, 2, 10), 1500, "Active"),
           employee("E5", "Office", isoDate(2023, 1, 31), 3000, "Active"),
           employee("E6", "Office", isoDate(2023, 6, 15), 3000, "Active"),
           employee("E7", "Office", isoDate(2023, 1, 31), 3000, "Inactive") >>

\* the aggregate when the calculator is opened: the staff imported, an
\* absence of E3 and an absence of E2 in the month before registered
PayrollAggregate ==
    reduceBatch(initialState,
                [i \in DOMAIN Staff |-> AddEntity("employees", Staff[i])]
                \o << handleSaveAttendance(S("E3"), isoDate(2024, 1, 5),
                                           S("Absent"), S("reason"), Null),
                      handleSaveAttendance(S("E2"), isoDate(2023, 12, 20),
                                           S("Absent"), S("reason"), Null) >>)

\* the cells of the attendance register that are saved
AttendanceEdits ==
    { << isoDate(2024, 1, 5), "Absent" >>, << isoDate(2024, 1, 6), "Absent" >>,
      << isoDate(2024, 1, 7), "HalfDay" >>, << isoDate(2024, 1, 7), "PaidLeave" >>,
      << isoDate(2024, 1, 8), "Holiday" >>, << isoDate(2024, 2, 5), "Absent" >> }

PayAttendance ==
    \E edit \in AttendanceEdits :
        LET record == cellRecord(rBase, "attendanceRecords", S("E2"), edit[1])
        IN  Reduce(handleSaveAttendance(S("E2"), edit[1], S(edit[2]),
                                        S("reason"),
                                        IF Truthy(record) THEN Get(record, "id")
                                        ELSE Null))

PayMonthChange ==
    \E offset \in {-1, 1} :
        LET newDate == handleMonthChange(currentDate, offset)
        IN  /\ newDate.year = currentDate.year
            /\ newDate.month <= MaxMonth
            /\ currentDate' = newDate
            /\ UNCHANGED << timeZone, selectedCell, syncVars, reducerVars,
                            convertVars >>

PayrollNext ==
    \/ PayAttendance
    \/ PayMonthChange

-----------------------------------------------------------------------------
(* AttendanceRegister, src/components/AttendanceRegister.tsx: a cell is      *)
(* opened in the modal, then saved, reset to Present or closed, while        *)
(* RESTORE_STATE brings in the aggregate that another client wrote.          *)

\* dispatch(action) of a component: the reducer applied to the aggregate
Dispatched(action) ==
    /\ rSteps < MaxReducerSteps
    /\ rSteps' = rSteps + 1
    /\ rPrev' = rBase
    /\ rAction' = action
    /\ rState' = dataReducer(rBase, action)
    /\ UNCHANGED << rLog, syncVars, convertVars >>

\* the cells of the grid that are clicked: an employee and a day of
\* January 2024
RegisterCells ==
    { << S("E2"), isoDate(2024, 1, 5) >>, << S("E2"), isoDate(2024, 1, 6) >>,
      << S("E3"), isoDate(2024, 1, 5) >> }

\* the statuses the modal offers (statusOptions, 47-52)
StatusOptions == { "Absent", "HalfDay", "PaidLeave", "SickLeave" }

\* handleCellClick, 156-161, on a cell of an active employee while no modal
\* is open: the record of the cell is taken from attendanceMap
AttCellClick ==
    \E cell \in RegisterCells :
        /\ selectedCell = Null
        /\ \E i \in DOMAIN employeesToProcess(rBase, Str(<< >>)) :
              Get(employeesToProcess(rBase, Str(<< >>))[i], "id") = cell[1]
        /\ selectedCell' =
              [employeeId |-> cell[1], date |-> cell[2],
               record |-> cellRecord(rBase, "attendanceRecords",
                                     cell[1], cell[2])]
        /\ UNCHANGED << currentDate, timeZone, syncVars, reducerVars,
                        convertVars >>

\* AttendanceEditModal.handleSave, 32-38, with a reason entered, and
\* handleSaveAttendance, 163-173: the record is the one the modal was
\* opened with
AttSave ==
    \E status \in StatusOptions :
        /\ selectedCell # Null
        /\ Dispatched(handleSaveAttendance(
                          selectedCell.employeeId, selectedCell.date,
                          S(status), S("reason"),
                          IF Truthy(selectedCell.record)
                          THEN Get(selectedCell.record, "id") ELSE Null))
        /\ selectedCell' = Null
        /\ UNCHANGED << currentDate, timeZone >>

\* AttendanceEditModal.handleMarkPresent, 40-45, and handleDeleteAttendance,
\* 175-178
AttMarkPresent ==
    /\ selectedCell # Null
    /\ selectedCell' = Null
    /\ UNCHANGED << currentDate, timeZone >>
    /\ \/ /\ Truthy(selectedCell.record)
          /\ Dispatched(handleDeleteAttendance(Get(selectedCell.record, "id")))
       \/ /\ ~Truthy(selectedCell.record)
          /\ UNCHANGED << syncVars, reducerVars, convertVars >>

\* Cancel: onClose, 272
AttClose ==
    /\ selectedCell # Null
    /\ selectedCell' = Null
    /\ UNCHANGED << currentDate, timeZone, syncVars, reducerVars,
                    convertVars >>

\* the documents another client writes after it has edited a cell of the
\* aggregate st
RemoteAttendanceDocs(st) ==
    LET edits(cell) ==
            LET record == cellRecord(st, "attendanceRecords", cell[1], cell[2])
            IN  IF Truthy(record)
                THEN { handleDeleteAttendance(Get(record, "id")) }
                ELSE { handleSaveAttendance(cell[1], cell[2], S("SickLeave"),
                                            S("reason"), Null) }
    IN  { convertUndefinedToNull(dataReducer(st, edit)) :
             edit \in UNION { edits(cell) : cell \in RegisterCells } }

\* the onSnapshot handler dispatches RESTORE_STATE with the document
\* (src/App.tsx 1064-1092); the modal stays as it is
AttRemoteRestore ==
    \E doc \in RemoteAttendanceDocs(rBase) :
        /\ Dispatched(RestoreState(doc))
        /\ UNCHANGED payrollVars

AttendanceNext ==
    \/ AttCellClick
    \/ AttSave
    \/ AttMarkPresent
    \/ AttClose
    \/ AttRemoteRestore

-----------------------------------------------------------------------------
(* SalaryCalculator.handleConfirmPayment: the payments confirmed for the     *)
(* rows of the selected month.                                               *)

\* the payment is added whether or not the aggregate holds one with its id
handleConfirmPayment_AlwaysAdds(st, payingRow, paymentDetails, year, month) ==
    LET monthYear == Str(<< ToString(year) \o "-" \o TwoDigits[month + 1] >>)
        newPayment ==
            Obj([id |-> Str(<< "SP-" >> \o payingRow.employeeId.v \o << "-" >>
                            \o monthYear.v),
                 employeeId |-> payingRow.employeeId,
                 monthYear |-> monthYear,
                 paymentDate |-> Today,
                 paymentMethod |-> paymentDetails.method,
                 bankId |-> IF paymentDetails.method = S("Bank")
                            THEN paymentDetails.bankId ELSE Undef,
                 amountPaid |-> Num(payingRow.netSalary)])
    IN  AddEntity("salaryPayments", newPayment)

\* handleConfirmPayment, src/components/SalaryCalculator.tsx 118-139, with a
\* row being paid: the action it dispatches
handleConfirmPayment(st, payingRow, paymentDetails, year, month) ==
    LET monthYear == Str(<< ToString(year) \o "-" \o TwoDigits[month + 1] >>)
        newPayment ==
            Obj([id |-> Str(<< "SP-" >> \o payingRow.employeeId.v \o << "-" >>
                            \o monthYear.v),
                 employeeId |-> payingRow.employeeId,
                 monthYear |-> monthYear,
                 paymentDate |-> Today,
                 paymentMethod |-> paymentDetails.method,
                 bankId |-> IF paymentDetails.method = S("Bank")
                            THEN paymentDetails.bankId ELSE Undef,
                 amountPaid |-> Num(payingRow.netSalary)])
        salaryPayments == Get(st, "salaryPayments").v
        existingPayment ==
            \E i \in DOMAIN salaryPayments :
                Get(salaryPayments[i], "id") = Get(newPayment, "id")
    IN  IF existingPayment THEN UpdateEntity("salaryPayments", newPayment)
        ELSE AddEntity("salaryPayments", newPayment)

\* the rows that are paid (payingRow, line 213) with the details chosen in
\* the panel (lines 214-239); the amount of a row is drawn from two amounts
PaymentInputs ==
    { << [employeeId |-> S("E1"), netSalary |-> 1500],
         [method |-> S("Cash"), bankId |-> S("B1")] >>,
      << [employeeId |-> S("E1"), netSalary |-> 1450],
         [method |-> S("Bank"), bankId |-> S("B1")] >>,
      << [employeeId |-> S("E2"), netSalary |-> 1500],
         [method |-> S("Cash"), bankId |-> S("B1")] >> }

PayConfirm ==
    \E input \in PaymentInputs :
        Reduce(handleConfirmPayment(rBase, input[1], input[2],
                                    currentDate.year, currentDate.month))

PaymentsNext ==
    \/ PayConfirm
    \/ PayMonthChange

-----------------------------------------------------------------------------
(* Employee master data: a blank row is added, a sheet is imported.          *)
(* generateEmployeeId (utils/idGenerator.ts) is taken to return any id that  *)
(* no employee of the list it is given has.                                  *)

\* the ids generateEmployeeId may return
EmployeeIdPool == { S("LBR-1"), S("LBR-2"), S("LBR-3") }

\* the ids of the employees of a list
employeeIds(employees) == { Get(employees[i], "id") : i \in DOMAIN employees }

\* the rows of a parsed sheet: without a CODE column, or with a code
ImportRows ==
    { Obj([fullName |-> S("A")]),
      Obj([fullName |-> S("B"), id |-> S("LBR-1")]),
      Obj([fullName |-> S("C"), id |-> S("OFF-7"),
           employeeType |-> S("Office")]) }

\* the parsed sheets: one or two rows
ImportSheets ==
    { << row >> : row \in ImportRows }
    \cup { << first, second >> : first, second \in ImportRows }

\* EmployeeManagement.handleAddBlank, src/unnamed/part_002 713-748; newId is
\* what generateEmployeeId(state.employees, 'Labour') returns
handleAddBlank(newId) ==
    AddEntity("employees",
              Obj([id |-> newId, employeeType |-> S("Labour"),
                   fullName |-> S("NEW EMPLOYEE"), joiningDate |-> Today,
                   status |-> S("Active"), basicSalary |-> Num(0),
                   allowance |-> Num(0), otherExps |-> Num(0)]))

\* BulkEmployeeSync.handleConfirmImport, src/unnamed/part_002 442-455: the
\* list of the batch; generated[i] is what generateEmployeeId returns for
\* row i when the row has no id
handleConfirmImport(parsedData, generated) ==
    [i \in DOMAIN parsedData |->
        LET empData == parsedData[i]
            type == OrElse(Get(empData, "employeeType"), S("Labour"))
            finalId == OrElse(Get(empData, "id"), generated[i])
        IN  AddEntity("employees",
                      Obj([id |-> finalId, employeeType |-> type,
                           fullName |-> OrElse(Get(empData, "fullName"),
                                               Str(<< >>)),
                           joiningDate |-> OrElse(Get(empData, "joiningDate"),
                                                  Today),
                           basicSalary |-> OrElse(Get(empData, "basicSalary"),
                                                  Num(0)),
                           allowance |-> OrElse(Get(empData, "allowance"),
                                                Num(0)),
                           otherExps |-> OrElse(Get(empData, "otherExps"),
                                                Num(0)),
                           status |-> S("Active"), advances |-> Num(0)]))]

\* every id the generator returns during the import is an id that no
\* employee of currentEmployeesInState has at that point: the employees of
\* the aggregate and the rows before
generatedIdsAreNew(st, parsedData, generated) ==
    LET list == handleConfirmImport(parsedData, generated)
    IN  \A i \in DOMAIN parsedData :
            IF Truthy(Get(parsedData[i], "id"))
            THEN generated[i] = Undef
            ELSE /\ generated[i] \in EmployeeIdPool
                 /\ generated[i] \notin employeeIds(recordsOf(st, "employees"))
                 /\ \A j \in 1..(i - 1) : generated[i] # Get(list[j].data, "id")

EmpAddBlank ==
    \E newId \in EmployeeIdPool :
        /\ newId \notin employeeIds(recordsOf(rBase, "employees"))
        /\ Reduce(handleAddBlank(newId))

EmpImport ==
    \E parsedData \in ImportSheets :
    \E generated \in [DOMAIN parsedData -> EmployeeIdPool \cup {Undef}] :
        /\ generatedIdsAreNew(rBase, parsedData, generated)
        /\ Reduce(BatchUpdate(handleConfirmImport(parsedData, generated)))

EmployeesNext ==
    \/ EmpAddBlank
    \/ EmpImport

-----------------------------------------------------------------------------
(* The serialiser applied on its own, then once more, and the serialised     *)
(* aggregate restored.                                                       *)

\* nesting depth of the values the serialiser is tried on
MaxDepth == 3

Leaves == { Undef, Null, Num(0), Num(1), S("a") }
FewLeaves == { Undef, Num(1) }

RECURSIVE JsValues(_)
JsValues(depth) ==
    IF depth = 0 THEN Leaves
    ELSE LET inner == JsValues(depth - 1)
         IN  Leaves
             \cup { Arr(<< x >>) : x \in inner }
             \cup { Arr(<< x, y >>) : x \in FewLeaves, y \in inner }
             \cup { Obj([a |-> x]) : x \in inner }
             \cup { Obj([a |-> y, b |-> x]) : x \in inner, y \in FewLeaves }

\* aggregates whose records hold undefined fields
AggregatesWithUndefined ==
    LET added == dataReducer(initialState, handleAddTask("t1", Str(<< >>)))
        toggled == dataReducer(added, toggleDone(Get(added, "hrTasks").v[1]))
    IN  { added, toggled,
          dataReducer(toggled, toggleDone(Get(toggled, "hrTasks").v[1])),
          dataReducer(added, handleAddTask("t2", S("u1"))) }

ConvertIdle ==
    /\ cIn = Undef
    /\ cOnce = Undef
    /\ cOut = Undef
    /\ cPc = "idle"

ConvertInit ==
    /\ cIn \in JsValues(MaxDepth) \cup AggregatesWithUndefined
    /\ cOnce = Undef
    /\ cOut = Undef
    /\ cPc = "in"

\* saveData, src/App.tsx 1140: const sanitizedState = convertUndefinedToNull(state)
ConvertOnce ==
    /\ cPc = "in"
    /\ cOnce' = convertUndefinedToNull(cIn)
    /\ cOut' = cOut
    /\ cPc' = "once"
    /\ UNCHANGED << cIn, syncVars, reducerVars, payrollVars >>

ConvertTwice ==
    /\ cPc = "once"
    /\ cOut' = convertUndefinedToNull(cOnce)
    /\ cPc' = "twice"
    /\ UNCHANGED << cIn, cOnce, syncVars, reducerVars, payrollVars >>

\* the written document comes back as the payload of RESTORE_STATE (1091)
RestoreSerialised ==
    /\ cPc = "once"
    /\ cIn \in AggregatesWithUndefined
    /\ cOut' = dataReducer(initialState, RestoreState(cOnce))
    /\ cPc' = "restored"
    /\ UNCHANGED << cIn, cOnce, syncVars, reducerVars, payrollVars >>

ConvertNext == ConvertOnce \/ ConvertTwice \/ RestoreSerialised

-----------------------------------------------------------------------------
(* The synchronisation layer: DataProvider, src/App.tsx 969-1171, in two     *)
(* clients, and the remote document they share.                              *)
(*                                                                           *)
(* One step is one callback run to completion together with the render and   *)
(* the save effect it causes (the state updates of one callback are applied  *)
(* in one render).  A set() stays in flight until the store commits or       *)
(* rejects it; the writes of one client are settled in the order issued.     *)
(* A committed change is notified to every live listener, the writer's own   *)
(* included, in commit order.                                                *)

Clients == { "A", "B" }

\* writes one client may have in flight
MaxPending == 2
\* notifications that may wait at one listener
MaxSnapshots == 2
\* local dispatches explored, over both clients
MaxDispatches == 2
\* sign-outs explored, over both clients
MaxSignOuts == 1
\* changes of the document made by other writers than the two clients
MaxExternalWrites == 1
\* rejected writes in one run
MaxRejects == 1
\* listener errors in one run
MaxListenerErrors == 1
\* callbacks explored in one run, over both clients and the store
MaxSteps == 8

None == [t |-> "none", v |-> 0]

\* a division listed twice, as the listener expects to meet (1073-1089)
SeedDivision == Obj([id |-> S("DIV-1"), name |-> S("Press")])

\* the document the clients may find at start-up
SeedDoc == Spread(LegacyDoc, "divisions", Arr(<< SeedDivision, SeedDivision >>))

InitialDocs == { Absent, SeedDoc }

\* a document that is no aggregate (it has no 'customers')
ForeignDoc == Obj([schemaVersion |-> Num(2)])

\* the de-duplication of firestoreData.divisions by id, 1073-1089
RECURSIVE uniqueDivisions(_, _)
uniqueDivisions(divisions, seenIds) ==
    IF divisions = << >> THEN << >>
    ELSE IF Get(Head(divisions), "id") \in seenIds
         THEN uniqueDivisions(Tail(divisions), seenIds)
         ELSE << Head(divisions) >>
              \o uniqueDivisions(Tail(divisions),
                                 seenIds \cup {Get(Head(divisions), "id")})

dedupDivisions(firestoreData) ==
    IF Get(firestoreData, "divisions").t = "arr"
    THEN Spread(firestoreData, "divisions",
                Arr(uniqueDivisions(Get(firestoreData, "divisions").v, {})))
    ELSE firestoreData

\* ---- the save effect, 1127-1151 ----
\* the effect returns at once and clears the ref (1128-1131)
effectSkips(updatingFromFirestore) == updatingFromFirestore

\* the effect reaches saveData (1133-1135, 1149)
effectSaves(updatingFromFirestore, loaded, profile) ==
    ~updatingFromFirestore /\ loaded /\ profile

\* saveStatus when the awaited set() resolves or rejects (1142, 1145)
statusAfterWrite_Optimistic(ok) == "synced"

statusAfterWrite(ok) == IF ok THEN "synced" ELSE "error"

\* what the snapshot listener leaves in isLocalChange when it returns early
\* (1066-1069)
localChangeAfterIgnore_Kept == TRUE

localChangeAfterIgnore == FALSE

\* the document after the store has applied set(data): no merge option, no
\* precondition (1141)
storedAfterSet_Merged(current, write) ==
    IF current.t = "obj" /\ write.data.t = "obj"
    THEN Obj([key \in DOMAIN write.data.v |->
                IF key \in write.changed \/ ~Has(current, key)
                THEN write.data.v[key] ELSE current.v[key]])
    ELSE write.data

storedAfterSet(current, write) == write.data

\* the top-level keys in which two aggregates differ
differingKeys(a, b) ==
    {key \in (DOMAIN a.v) \cup (DOMAIN b.v) : Get(a, key) # Get(b, key)}

\* a notification: the document and the store's count of changes it shows
Notification(doc, version) == [doc |-> doc, version |-> version]

NoWrite == [kind |-> "none", base |-> 0 - 1, changed |-> {}]

NoEv ==
    [op |-> "init", c |-> "", flagBefore |-> FALSE, newState |-> FALSE,
     depsChanged |-> FALSE, issued |-> 0, exists |-> FALSE, run |-> 0,
     failedBefore |-> FALSE,
     write |-> NoWrite, prevWriter |-> "", prevBase |-> 0 - 1,
     prevChanged |-> {}]

SyncInit ==
    /\ state = [c \in Clients |-> initialState]
    /\ userProfile = [c \in Clients |-> FALSE]
    /\ authLoading = [c \in Clients |-> TRUE]
    /\ isFirestoreLoaded = [c \in Clients |-> FALSE]
    /\ saveStatus = [c \in Clients |-> "synced"]
    /\ isUpdatingFromFirestore = [c \in Clients |-> FALSE]
    /\ isLocalChange = [c \in Clients |-> FALSE]
    /\ remoteDoc \in InitialDocs
    /\ pendingWrites = [c \in Clients |-> << >>]
    /\ snapshots = [c \in Clients |-> << >>]
    /\ listening = [c \in Clients |-> FALSE]
    /\ ev = NoEv
    /\ hist = [hasRead |-> [c \in Clients |-> FALSE],
               dispatchRun |-> [c \in Clients |-> 0],
               ignoredRun |-> [c \in Clients |-> 0],
               base |-> [c \in Clients |-> 0 - 1],
               dirty |-> [c \in Clients |-> {}],
               version |-> 0,
               docWriter |-> "", docBase |-> 0 - 1, docChanged |-> {},
               writers |-> << >>,
               dispatches |-> 0, signOuts |-> 0, externals |-> 0,
               rejects |-> 0, listenerErrors |-> 0,
               failed |-> [c \in Clients |-> FALSE], steps |-> 0]

SyncIdle ==
    /\ SyncInit
    /\ remoteDoc = Absent

\* The render that follows a callback of client c, and the save effect when
\* one of its dependencies [state, userProfile, isFirestoreLoaded] changed.
\* r holds what the callback has set:
\*   st, profile, loaded, status, loading: the React state
\*   updating: isUpdatingFromFirestore.current as the callback leaves it
\*   newObject: the reducer has returned another object than state
\*   direct: the writes the callback has issued itself
\* e is the history record of the step; hist' is set by the caller.
Render(c, r, e) ==
    LET depsChanged == \/ r.newObject
                       \/ r.profile # userProfile[c]
                       \/ r.loaded # isFirestoreLoaded[c]
        saves == depsChanged /\ effectSaves(r.updating, r.loaded, r.profile)
    IN
    \E issued \in
        { r.direct \o
          (IF saves
           THEN << [kind |-> "save", data |-> data, base |-> hist'.base[c],
                    changed |-> hist'.dirty[c]] >>
           ELSE << >>) :
          data \in {IF saves THEN convertUndefinedToNull(r.st) ELSE None} } :
        /\ hist.steps < MaxSteps
        /\ Len(pendingWrites[c]) + Len(issued) <= MaxPending
        /\ state' = [state EXCEPT ![c] = r.st]
        /\ userProfile' = [userProfile EXCEPT ![c] = r.profile]
        /\ isFirestoreLoaded' = [isFirestoreLoaded EXCEPT ![c] = r.loaded]
        /\ authLoading' = [authLoading EXCEPT ![c] = r.loading]
        /\ isUpdatingFromFirestore' =
              [isUpdatingFromFirestore EXCEPT
                  ![c] = IF depsChanged /\ effectSkips(r.updating) THEN FALSE
                         ELSE r.updating]
        /\ saveStatus' = [saveStatus EXCEPT
                             ![c] = IF saves THEN "saving" ELSE r.status]
        /\ pendingWrites' = [pendingWrites EXCEPT ![c] = @ \o issued]
        /\ ev' = [e EXCEPT !.c = c, !.issued = Len(issued),
                           !.failedBefore = hist.failed[c],
                           !.depsChanged = depsChanged,
                           !.newState = r.newObject]
        /\ UNCHANGED << reducerVars, convertVars, payrollVars >>

\* what a callback of client c leaves untouched
Kept(c) ==
    [st |-> state[c], profile |-> userProfile[c], loaded |-> isFirestoreLoaded[c],
     status |-> saveStatus[c], loading |-> authLoading[c],
     updating |-> isUpdatingFromFirestore[c], newObject |-> FALSE,
     direct |-> << >>]

\* ---- onAuthStateChanged with a user whose profile is found, 1039-1104 ----
\* setUserProfile(profile); the previous listener is dropped and a new one
\* registered, which is first told the current document.
SignIn(c) ==
    /\ ~userProfile[c]
    /\ hist' = [hist EXCEPT !.hasRead[c] = FALSE, !.steps = @ + 1]
    /\ listening' = [listening EXCEPT ![c] = TRUE]
    /\ snapshots' = [snapshots EXCEPT
                        ![c] = << Notification(remoteDoc, hist.version) >>]
    /\ Render(c, [Kept(c) EXCEPT !.profile = TRUE],
              [NoEv EXCEPT !.op = "signIn"])
    /\ UNCHANGED << isLocalChange, remoteDoc >>

\* ---- onAuthStateChanged without a user, 1114-1122 ----
SignOut(c) ==
    /\ userProfile[c] \/ authLoading[c]
    /\ hist.signOuts < MaxSignOuts
    /\ hist' = [hist EXCEPT !.hasRead[c] = FALSE, !.signOuts = @ + 1,
                            !.steps = @ + 1]
    /\ listening' = [listening EXCEPT ![c] = FALSE]
    /\ snapshots' = [snapshots EXCEPT ![c] = << >>]
    /\ Render(c, [Kept(c) EXCEPT !.profile = FALSE, !.loaded = FALSE,
                                 !.loading = FALSE],
              [NoEv EXCEPT !.op = "signOut"])
    /\ UNCHANGED << isLocalChange, remoteDoc >>

\* ---- wrappedDispatch, 979-982, called by a handler of the rendered UI ----
\* the actions the UI of a client with aggregate st may dispatch
UiActions(st) ==
    LET tasks == recordsOf(st, "hrTasks")
        record == cellRecord(st, "attendanceRecords", S("E1"),
                             Str(<< "2024-01", "-05" >>))
    IN  (IF tasks = << >> THEN { handleAddTask("t1", Str(<< >>)) } ELSE {})
        \cup { toggleDone(tasks[i]) : i \in DOMAIN tasks }
        \cup { handleSaveAttendance(S("E1"), Str(<< "2024-01", "-05" >>),
                                    S("Absent"), S("reason"),
                                    IF Truthy(record) THEN Get(record, "id")
                                    ELSE Null) }

Dispatch(c) ==
    /\ userProfile[c] /\ ~authLoading[c]
    /\ hist.dispatches < MaxDispatches
    /\ \E action \in UiActions(state[c]) :
       \E next \in {dataReducer(state[c], action)} :
          /\ next # Throw
          /\ hist' = [hist EXCEPT !.dispatches = @ + 1, !.steps = @ + 1,
                                  !.dispatchRun[c] = @ + 1,
                                  !.ignoredRun[c] = 0,
                                  !.dirty[c] = @ \cup differingKeys(state[c], next),
                                  !.failed[c] =
                                      @ /\ returnsSameObject(state[c], action)]
          /\ isLocalChange' = [isLocalChange EXCEPT ![c] = TRUE]
          /\ Render(c, [Kept(c) EXCEPT
                           !.st = next,
                           !.newObject = ~returnsSameObject(state[c], action)],
                    [NoEv EXCEPT !.op = "dispatch"])
    /\ UNCHANGED << remoteDoc, snapshots, listening >>

\* ---- the onSnapshot listener, 1065-1098 ----
Snapshot(c) ==
    /\ listening[c]
    /\ snapshots[c] # << >>
    /\ snapshots' = [snapshots EXCEPT ![c] = Tail(@)]
    /\ LET doc == Head(snapshots[c]).doc
           version == Head(snapshots[c]).version
           e == [NoEv EXCEPT !.op = "snapshot", !.exists = (doc # Absent),
                             !.flagBefore = isLocalChange[c],
                             !.run = hist.dispatchRun[c]]
       IN  IF isLocalChange[c]
           THEN \* 1066-1069
                /\ isLocalChange' =
                      [isLocalChange EXCEPT ![c] = localChangeAfterIgnore]
                /\ hist' = [hist EXCEPT !.dispatchRun[c] = 0, !.steps = @ + 1,
                                        !.ignoredRun[c] = @ + 1]
                /\ Render(c, Kept(c), e)
           ELSE IF doc # Absent
           THEN \* 1070-1092, 1096-1097
                \E action \in {RestoreState(dedupDivisions(doc))} :
                \E restored \in {dataReducer(state[c], action)} :
                    /\ hist' = [hist EXCEPT
                                   !.dispatchRun[c] = 0, !.steps = @ + 1,
                                   !.hasRead[c] = TRUE,
                                   !.base[c] = IF restoreShapeOk(doc)
                                               THEN version ELSE @,
                                   !.dirty[c] = IF restoreShapeOk(doc)
                                                THEN {} ELSE @,
                                   !.failed[c] = @ /\ ~restoreShapeOk(doc)]
                    /\ Render(c, [Kept(c) EXCEPT
                                     !.st = restored,
                                     !.newObject =
                                         ~returnsSameObject(state[c], action),
                                     !.updating = TRUE,
                                     !.status = "synced",
                                     !.loaded = TRUE,
                                     !.loading = FALSE], e)
                    /\ UNCHANGED isLocalChange
           ELSE \* 1093-1097
                /\ hist' = [hist EXCEPT !.dispatchRun[c] = 0, !.steps = @ + 1,
                                        !.hasRead[c] = TRUE,
                                        !.base[c] = version]
                /\ Render(c, [Kept(c) EXCEPT
                                 !.direct = << [kind |-> "init",
                                                data |-> initialState,
                                                base |-> version,
                                                changed |-> {}] >>,
                                 !.loaded = TRUE,
                                 !.loading = FALSE], e)
                /\ UNCHANGED isLocalChange
    /\ UNCHANGED << remoteDoc, listening >>

\* ---- the error callback of onSnapshot, 1099-1103 ----
\* the listener ends with the error and is told nothing more
ListenerError(c) ==
    /\ listening[c]
    /\ hist.listenerErrors < MaxListenerErrors
    /\ listening' = [listening EXCEPT ![c] = FALSE]
    /\ snapshots' = [snapshots EXCEPT ![c] = << >>]
    /\ hist' = [hist EXCEPT !.steps = @ + 1, !.listenerErrors = @ + 1]
    /\ Render(c, [Kept(c) EXCEPT !.loaded = TRUE, !.loading = FALSE],
              [NoEv EXCEPT !.op = "listenerError"])
    /\ UNCHANGED << isLocalChange, remoteDoc >>

\* ---- a set() of client c settles: await db.doc(...).set(...), 1141-1146 ----
\* only saveData awaits the outcome; the set(initialState) of 1094 is not awaited
WriteSettles(c, ok) ==
    /\ pendingWrites[c] # << >>
    /\ hist.steps < MaxSteps
    /\ ok \/ hist.rejects < MaxRejects
    /\ LET write == Head(pendingWrites[c])
       IN  /\ pendingWrites' = [pendingWrites EXCEPT ![c] = Tail(@)]
           /\ saveStatus' =
                 [saveStatus EXCEPT
                     ![c] = IF write.kind = "save" THEN statusAfterWrite(ok)
                            ELSE @]
           /\ ev' = [NoEv EXCEPT !.op = IF ok THEN "commit" ELSE "reject",
                                 !.c = c,
                                 !.write = [kind |-> write.kind,
                                            base |-> write.base,
                                            changed |-> write.changed],
                                 !.prevWriter = hist.docWriter,
                                 !.prevBase = hist.docBase,
                                 !.prevChanged = hist.docChanged]
           /\ IF ok
              THEN /\ \A d \in Clients :
                         listening[d] => Len(snapshots[d]) < MaxSnapshots
                   /\ remoteDoc' = storedAfterSet(remoteDoc, write)
                   /\ snapshots' =
                         [d \in Clients |->
                             IF listening[d]
                             THEN Append(snapshots[d],
                                         Notification(
                                             storedAfterSet(remoteDoc, write),
                                             hist.version + 1))
                             ELSE snapshots[d]]
                   /\ hist' = [hist EXCEPT !.steps = @ + 1,
                                           !.version = @ + 1,
                                           !.docWriter = c,
                                           !.writers = Append(@, c),
                                           !.docBase = write.base,
                                           !.docChanged = write.changed]
              ELSE /\ hist' = [hist EXCEPT
                                  !.steps = @ + 1, !.rejects = @ + 1,
                                  !.failed[c] = @ \/ write.kind = "save"]
                   /\ UNCHANGED << remoteDoc, snapshots >>
    /\ UNCHANGED << state, userProfile, authLoading, isFirestoreLoaded,
                    isUpdatingFromFirestore, isLocalChange, listening,
                    reducerVars, convertVars, payrollVars >>

WriteCommit(c) == WriteSettles(c, TRUE)

WriteReject(c) == WriteSettles(c, FALSE)

\* ---- the document is changed by a writer that is not this program ----
ExternalWrite ==
    /\ hist.externals < MaxExternalWrites
    /\ hist.steps < MaxSteps
    /\ \A d \in Clients : listening[d] => Len(snapshots[d]) < MaxSnapshots
    /\ remoteDoc' = ForeignDoc
    /\ snapshots' = [d \in Clients |->
                        IF listening[d]
                        THEN Append(snapshots[d],
                                    Notification(ForeignDoc, hist.version + 1))
                        ELSE snapshots[d]]
    /\ hist' = [hist EXCEPT !.externals = @ + 1, !.steps = @ + 1,
                            !.version = @ + 1, !.docWriter = "",
                            !.writers = Append(@, ""),
                            !.docBase = 0 - 1, !.docChanged = {}]
    /\ ev' = [NoEv EXCEPT !.op = "external"]
    /\ UNCHANGED << state, userProfile, authLoading, isFirestoreLoaded,
                    saveStatus, isUpdatingFromFirestore, isLocalChange,
                    pendingWrites, listening, reducerVars, convertVars, payrollVars >>

Next ==
    \/ \E c \in Clients : SignIn(c)
    \/ \E c \in Clients : SignOut(c)
    \/ \E c \in Clients : Dispatch(c)
    \/ \E c \in Clients : Snapshot(c)
    \/ \E c \in Clients : ListenerError(c)
    \/ \E c \in Clients : WriteCommit(c)
    \/ \E c \in Clients : WriteReject(c)
    \/ ExternalWrite

-----------------------------------------------------------------------------
(* The specifications *)

\* the two clients and the remote document
Init == SyncInit /\ ReducerIdle /\ ConvertIdle /\ PayrollIdle
Spec == Init /\ [][Next]_vars

\* the reducer on its own
ReducerInit == SyncIdle /\ ReducerIdle /\ ConvertIdle /\ PayrollIdle
SpecReducer == ReducerInit /\ [][ReducerNext]_vars

\* the entity actions on their own
SpecEntities == ReducerInit /\ [][EntityNext]_vars

\* the salary calculator over the aggregate, in the time zone of the browser
PayrollInit ==
    /\ SyncIdle
    /\ ConvertIdle
    /\ rPrev = PayrollAggregate
    /\ rAction = [type |-> "@@INIT"]
    /\ rState = PayrollAggregate
    /\ rSteps = 0
    /\ rLog = << >>
    /\ currentDate \in { [year |-> 2024, month |-> 0, day |-> 15],
                          [year |-> 2024, month |-> 0, day |-> 31] }
    /\ timeZone \in { -6, 0, 4, 6, 12 }
    /\ selectedCell = Null
SpecPayroll == PayrollInit /\ [][PayrollNext]_vars

\* the attendance register over the aggregate of the imported staff
AttendanceInit ==
    /\ SyncIdle
    /\ ConvertIdle
    /\ PayrollIdle
    /\ rPrev = PayrollAggregate
    /\ rAction = [type |-> "@@INIT"]
    /\ rState = PayrollAggregate
    /\ rSteps = 0
    /\ rLog = << >>
SpecAttendance == AttendanceInit /\ [][AttendanceNext]_vars

\* the salary payments confirmed over the aggregate of the imported staff
SpecPayments == AttendanceInit /\ [][PaymentsNext]_vars

\* the posting operations over an aggregate with two unposted invoices
PostingInit ==
    /\ SyncIdle
    /\ ConvertIdle
    /\ PayrollIdle
    /\ rPrev = PostingAggregate
    /\ rAction = [type |-> "@@INIT"]
    /\ rState = PostingAggregate
    /\ rSteps = 0
    /\ rLog = << >>
SpecPosting == PostingInit /\ [][PostingNext]_vars

\* the employee master data, from the default aggregate
SpecEmployees == ReducerInit /\ [][EmployeesNext]_vars

\* the serialiser on its own
SerialiserInit == SyncIdle /\ ReducerIdle /\ ConvertInit /\ PayrollIdle
SpecConvert == SerialiserInit /\ [][ConvertNext]_vars

-----------------------------------------------------------------------------
(* Properties of the reducer, checked under SpecReducer *)

\* C7: the reducer never throws: on every aggregate reached and for every
\* action dispatched, the ADD_ENTITY, UPDATE_ENTITY and DELETE_ENTITY of the
\* overtime registers among them, dataReducer returns a state, and an action
\* of unknown type returns the state it was given.
C7_ReducerNeverThrows ==
    /\ rState # Throw
    /\ rAction.type \notin KnownActionTypes \cup {"@@INIT"} => rState = rPrev

\* the payload of the last action is no aggregate: null, not an object, or an
\* object without 'customers'
payloadIsNoAggregate ==
    \/ rAction.payload.t # "obj"
    \/ "customers" \notin DOMAIN rAction.payload.v

\* C8: RESTORE_STATE with a payload that is null, is not an object or has no
\* 'customers' field returns the previous state unchanged.
C8_RestoreKeepsStateOnBadPayload ==
    (rAction.type = "RESTORE_STATE" /\ payloadIsNoAggregate) => rState = rPrev

\* an object without 'customers' was offered to an aggregate that differs
\* from the defaults, and the aggregate was kept
C8_Witness ==
    /\ rAction.type = "RESTORE_STATE"
    /\ rAction.payload.t = "obj"
    /\ "customers" \notin DOMAIN rAction.payload.v
    /\ rPrev # initialState
    /\ rState = rPrev

\* the value the payload has for key: the one taken unless missing or null
payloadValueOrDefault(key) ==
    IF Get(rAction.payload, key).t \in {"undef", "null"}
    THEN Get(getInitialState, key)
    ELSE Get(rAction.payload, key)

restoredFromAggregate ==
    rAction.type = "RESTORE_STATE" /\ ~payloadIsNoAggregate

\* C9 as stated: after RESTORE_STATE with a valid payload every top-level key
\* of the defaults is present, with the payload's value when the payload has
\* one and the default when it is missing or null.
C9_RestoreTakesPayloadOrDefault ==
    restoredFromAggregate =>
        \A key \in DOMAIN getInitialState.v :
            /\ key \in DOMAIN rState.v
            /\ rState.v[key] = payloadValueOrDefault(key)

\* an item as restored: the payload's record with nextBaleNumber set to
\* (openingStock || 0) + the quantities produced of it + 1
itemAsRestored(item, productions) ==
    Obj([f \in (DOMAIN item.v) \cup {"nextBaleNumber"} |->
            IF f = "nextBaleNumber"
            THEN Num((IF Get(item, "openingStock").t = "num"
                      THEN Get(item, "openingStock").v ELSE 0)
                     + productionsByItem(productions, Get(item, "id")) + 1)
            ELSE item.v[f]])

\* C9 amended: every top-level key of the defaults is present; a counter has
\* the payload's value unless that is missing or null (0 is kept); any other
\* key has the payload's value when that is truthy and the default otherwise;
\* the items are the payload's with nextBaleNumber recomputed.
C9_RestoreDefaultsAndRecomputes ==
    restoredFromAggregate =>
        /\ DOMAIN getInitialState.v \subseteq DOMAIN rState.v
        /\ \A key \in CounterKeys : rState.v[key] = payloadValueOrDefault(key)
        /\ \A key \in (DOMAIN getInitialState.v) \ (CounterKeys \cup {"items"}) :
              rState.v[key] = IF Truthy(Get(rAction.payload, key))
                              THEN Get(rAction.payload, key)
                              ELSE Get(getInitialState, key)
        /\ LET items == IF Truthy(Get(rAction.payload, "items"))
                        THEN Get(rAction.payload, "items").v ELSE << >>
           IN  /\ Len(rState.v["items"].v) = Len(items)
               /\ \A i \in DOMAIN items :
                     rState.v["items"].v[i]
                        = itemAsRestored(items[i], rState.v["productions"].v)

\* a payload without expenseAccounts, with employees null, a counter at 0 and
\* an item whose nextBaleNumber is stale has been restored
C9_Witness ==
    /\ restoredFromAggregate
    /\ ~Has(rAction.payload, "expenseAccounts")
    /\ Get(rAction.payload, "employees") = Null
    /\ Get(rAction.payload, "nextHRTaskId") = Num(0)
    /\ Get(rState, "nextHRTaskId") = Num(0)
    /\ Get(rState, "expenseAccounts") = Get(getInitialState, "expenseAccounts")
    /\ Get(rState, "employees") = Arr(<< >>)
    /\ Get(rAction.payload, "items").v[1].v["nextBaleNumber"] = Num(1)
    /\ Get(rState, "items").v[1].v["nextBaleNumber"] = Num(6)

\* C27: the aggregate that RESTORE_STATE returns for a valid payload has
\* exactly the top-level keys of getInitialState(); any other top-level
\* collection of the payload, overtimeRecords and overtimePressRecords among
\* them, is absent from it.
C27_RestoreIsWhitelist ==
    restoredFromAggregate =>
        /\ DOMAIN rState.v = DOMAIN getInitialState.v
        /\ \A key \in (DOMAIN rAction.payload.v) \ (DOMAIN getInitialState.v) :
              ~Has(rState, key)
        /\ ~Has(rState, "overtimeRecords")
        /\ ~Has(rState, "overtimePressRecords")

\* a document holding a record in each of the two overtime collections has
\* been restored, and the aggregate has neither collection
C27_Witness ==
    /\ restoredFromAggregate
    /\ Len(recordsOf(rAction.payload, "overtimeRecords")) = 1
    /\ Len(recordsOf(rAction.payload, "overtimePressRecords")) = 1
    /\ Get(rState, "overtimeRecords") = Undef
    /\ Get(rState, "overtimePressRecords") = Undef
    /\ Get(rState, "customers") = Get(rAction.payload, "customers")

\* the press-overtime record with the id in the aggregate, Null without one
pressRecord(st, id) ==
    LET records == recordsOf(st, "overtimePressRecords")
        hits == { i \in DOMAIN records : Get(records[i], "id") = id }
    IN  IF hits = {} THEN Null ELSE records[CHOOSE i \in hits : TRUE]

\* the pool of the production tool, extra bales at their rate
TeamPool ==
    LET toolData == CHOOSE t \in TeamInputs : TRUE
    IN  toolData.extraBales * toolData.ratePerExtra

\* C30: a team distribution is applied as one BATCH_UPDATE after which the
\* record of each selected worker for the date holds the amount it held
\* before (0 without a record) plus pool / team size; and an edit of the
\* hours of a cell whose record holds a pooled amount, whatever is entered,
\* leaves that record in place with the amount it had.
C30_PooledBonusKept ==
    /\ rAction.type = "BATCH_UPDATE" =>
          /\ rState # Throw
          /\ \A i \in DOMAIN rAction.list :
                LET data == rAction.list[i].data
                    before == pressRecord(rPrev, Get(data, "id"))
                IN  /\ Get(pressRecord(rState, Get(data, "id")), "amount")
                          = Get(data, "amount")
                    /\ Get(data, "amount").v
                          = OrElse(Get(before, "amount"), Num(0)).v
                              + TeamPool \div Len(rAction.list)
    /\ (/\ rAction.type \in {"ADD_ENTITY", "UPDATE_ENTITY", "DELETE_ENTITY"}
        /\ rAction.entity = "overtimePressRecords") =>
          \A i \in DOMAIN recordsOf(rPrev, "overtimePressRecords") :
              LET before == recordsOf(rPrev, "overtimePressRecords")[i]
              IN  Truthy(Get(before, "amount")) =>
                     /\ rState # Throw
                     /\ Get(pressRecord(rState, Get(before, "id")), "amount")
                           = Get(before, "amount")

-----------------------------------------------------------------------------
(* Properties of the serialiser, checked under SpecConvert *)

\* y is x with null in place of every property whose value is undefined, at
\* any depth, and nothing else changed
RECURSIVE undefinedNulled(_, _)
undefinedNulled(x, y) ==
    IF x.t = "obj"
    THEN /\ y.t = "obj"
         /\ DOMAIN y.v = DOMAIN x.v
         /\ \A key \in DOMAIN x.v :
               IF x.v[key] = Undef THEN y.v[key] = Null
               ELSE undefinedNulled(x.v[key], y.v[key])
    ELSE IF x.t = "arr"
    THEN /\ y.t = "arr"
         /\ Len(y.v) = Len(x.v)
         /\ \A i \in DOMAIN x.v : undefinedNulled(x.v[i], y.v[i])
    ELSE y = x

\* the fields of the records of aggregate x that are undefined are null in
\* the same record of aggregate y
undefinedFieldsNull(x, y) ==
    \A key \in DOMAIN x.v :
        x.v[key].t = "arr" =>
            \A i \in DOMAIN x.v[key].v :
                x.v[key].v[i].t = "obj" =>
                    \A f \in DOMAIN x.v[key].v[i].v :
                        x.v[key].v[i].v[f] = Undef =>
                            Get(Get(y, key).v[i], f) = Null

\* C10: convertUndefinedToNull replaces every undefined property value at any
\* depth by null and leaves everything else as it is; applied twice it gives
\* what it gives applied once; the serialised aggregate, restored, has null
\* in place of the undefined fields of its records.
C10_SerialisationRoundTrip ==
    /\ cPc \in {"once", "twice", "restored"} => undefinedNulled(cIn, cOnce)
    /\ cPc = "twice" => cOut = cOnce
    /\ cPc = "restored" => undefinedFieldsNull(cIn, cOut)

\* an aggregate with a task whose assignedToId is undefined has been
\* serialised and restored, and the restored task has null there
C10_Witness ==
    /\ cPc = "restored"
    /\ Get(Get(cIn, "hrTasks").v[1], "assignedToId") = Undef
    /\ Has(Get(cIn, "hrTasks").v[1], "assignedToId")
    /\ Get(Get(cOut, "hrTasks").v[1], "assignedToId") = Null

-----------------------------------------------------------------------------
(* Properties of the synchronisation layer, checked under Spec.  A step is   *)
(* described by ev: the callback that ran (op), its client (c), and what the *)
(* render after it did.                                                      *)

\* the step is the snapshot listener of client c told a document
notified(c) == ev'.op = "snapshot" /\ ev'.c = c

\* C1 as stated: a dispatch sets the local-change flag; a notification that
\* finds the flag set leaves the aggregate alone and clears the flag, so that
\* one notification is ignored per run of dispatches; a notification that
\* finds the flag clear and carries an existing document replaces the
\* aggregate by the document restored.
C1_EchoIgnoredElseReplaced ==
    [][\A c \in Clients :
          /\ (ev'.op = "dispatch" /\ ev'.c = c) => isLocalChange'[c]
          /\ notified(c) =>
                IF isLocalChange[c]
                THEN /\ state'[c] = state[c]
                     /\ ~isLocalChange'[c]
                     /\ hist'.ignoredRun[c] = 1
                ELSE Head(snapshots[c]).doc # Absent =>
                        state'[c] = restoredAggregate(
                                        dedupDivisions(Head(snapshots[c]).doc))
      ]_vars

\* C1 amended: as above, but only a document that has a 'customers' field
\* replaces the aggregate; any other existing document leaves it as it is.
C1_EchoIgnoredElseRestored ==
    [][\A c \in Clients :
          /\ (ev'.op = "dispatch" /\ ev'.c = c) => isLocalChange'[c]
          /\ notified(c) =>
                IF isLocalChange[c]
                THEN /\ state'[c] = state[c]
                     /\ ~isLocalChange'[c]
                     /\ hist'.ignoredRun[c] = 1
                ELSE Head(snapshots[c]).doc # Absent =>
                        state'[c] =
                            IF Has(Head(snapshots[c]).doc, "customers")
                            THEN restoredAggregate(
                                     dedupDivisions(Head(snapshots[c]).doc))
                            ELSE state[c]
      ]_vars

\* two dispatches of a client were followed by a notification, which was
\* ignored and has cleared the flag
C1_Witness ==
    /\ ev.op = "snapshot"
    /\ ev.flagBefore
    /\ ev.run >= 2
    /\ ~isLocalChange[ev.c]
    /\ hist.ignoredRun[ev.c] = 1

\* the step commits the oldest write in flight of client c
commits(c) == ev'.op = "commit" /\ ev'.c = c

\* the write that commits was issued from the same document as the one that
\* wrote the current document, by another client, and the two changed
\* different keys
overwritesConcurrentChange(c) ==
    /\ hist.docWriter \notin {"", c}
    /\ Head(pendingWrites[c]).base = hist.docBase
    /\ hist.docChanged # {}
    /\ Head(pendingWrites[c]).changed # {}
    /\ Head(pendingWrites[c]).changed \cap hist.docChanged = {}

\* C2: a write sends the complete aggregate of its client, and when it
\* commits the document is that aggregate, whatever the document was; if the
\* document held the change another client made from the same base to other
\* keys, that change is gone.
C2_LastWriterWins ==
    [][\A c \in Clients :
          /\ (ev'.c = c /\ ev'.issued > 0
                /\ pendingWrites'[c][Len(pendingWrites'[c])].kind = "save") =>
                pendingWrites'[c][Len(pendingWrites'[c])].data
                    = convertUndefinedToNull(state'[c])
          /\ commits(c) =>
                /\ remoteDoc' = Head(pendingWrites[c]).data
                /\ overwritesConcurrentChange(c) =>
                      \A key \in hist.docChanged :
                          Get(remoteDoc', key) # Get(remoteDoc, key)
      ]_vars

\* the second of two clients that changed different keys after loading the
\* same document has committed, and the document is its aggregate
C2_Witness ==
    /\ ev.op = "commit"
    /\ ev.prevWriter \notin {"", ev.c}
    /\ ev.write.kind = "save"
    /\ ev.write.base = ev.prevBase
    /\ ev.prevChanged # {}
    /\ ev.write.changed # {}
    /\ ev.write.changed \cap ev.prevChanged = {}
    /\ hist.docWriter = ev.c
    /\ remoteDoc = convertUndefinedToNull(state[ev.c])

\* C3: a client issues a write only when its user profile is set and the
\* first notification after sign-in has been processed, so that it never
\* writes over a document it has not read.
C3_NoWriteBeforeInitialLoad ==
    ev.issued > 0 =>
        /\ userProfile[ev.c]
        /\ isFirestoreLoaded[ev.c]
        /\ remoteDoc # Absent => hist.hasRead[ev.c]

\* C4: after the initial load every dispatch that changes the aggregate is
\* followed by a write of the complete aggregate.
C4_EveryLocalChangeWritten ==
    (/\ ev.op = "dispatch"
     /\ ev.newState
     /\ userProfile[ev.c]
     /\ isFirestoreLoaded[ev.c]) =>
        /\ ev.issued > 0
        /\ pendingWrites[ev.c][Len(pendingWrites[ev.c])].data
              = convertUndefinedToNull(state[ev.c])

\* the step rejects the oldest write in flight of client c, a write of saveData
rejectsSave(c) ==
    /\ ev'.op = "reject"
    /\ ev'.c = c
    /\ Head(pendingWrites[c]).kind = "save"

C6_SavingWhileWriteInFlight ==
    \A c \in Clients :
        (\E i \in DOMAIN pendingWrites[c] : pendingWrites[c][i].kind = "save")
            => saveStatus[c] = "saving"

-----------------------------------------------------------------------------
(* Properties of the entity actions, checked under SpecEntities *)

\* the last step applied an action of that type, and the reducer returned
lastStep(type) == rAction.type = type /\ rState # Throw

\* every property of the aggregate but those named is as before the last step
sameExcept(keys) ==
    /\ DOMAIN rState.v = DOMAIN rPrev.v
    /\ \A key \in (DOMAIN rPrev.v) \ keys : rState.v[key] = rPrev.v[key]

\* the counter that belongs to each collection with a document number
AssociatedCounter ==
    [ salesInvoices |-> "nextInvoiceNumber",
      ongoingOrders |-> "nextOngoingOrderNumber",
      finishedGoodsPurchases |-> "nextFinishedGoodsPurchaseNumber",
      packingMaterialPurchases |-> "nextPackingMaterialPurchaseNumber",
      logisticsEntries |-> "nextLogisticsSNo",
      guaranteeCheques |-> "nextGuaranteeChequeSNo",
      hrTasks |-> "nextHRTaskId",
      hrEnquiries |-> "nextHREnquiryId",
      testEntries |-> "nextTestEntryNumber" ]

\* the counters of the four voucher series
VoucherCounters ==
    { "nextReceiptVoucherNumber", "nextPaymentVoucherNumber",
      "nextExpenseVoucherNumber", "nextJournalVoucherNumber" }

SeriesOfCounter ==
    [ nextReceiptVoucherNumber |->
          [entryType |-> "Receipt", prefix |-> << "R", "V", "-" >>],
      nextPaymentVoucherNumber |->
          [entryType |-> "Payment", prefix |-> << "P", "V", "-" >>],
      nextExpenseVoucherNumber |->
          [entryType |-> "Expense", prefix |-> << "E", "V", "-" >>],
      nextJournalVoucherNumber |->
          [entryType |-> "Journal", prefix |-> << "J", "V", "-" >>] ]

\* the entry type and the id prefix of the journal entry are those of the
\* series of the counter
matchesSeries(entry, counter) ==
    /\ Get(entry, "entryType") = S(SeriesOfCounter[counter].entryType)
    /\ Get(entry, "voucherId").t = "str"
    /\ LET id == Get(entry, "voucherId").v
           prefix == SeriesOfCounter[counter].prefix
       IN  /\ Len(id) >= Len(prefix)
           /\ \A i \in DOMAIN prefix : id[i] = prefix[i]

\* the history holds additions only, single or in a batch
additionsOnly ==
    \A i \in DOMAIN rLog :
        \/ rLog[i].type = "ADD_ENTITY"
        \/ /\ rLog[i].type = "BATCH_UPDATE"
           /\ \A j \in DOMAIN rLog[i].list : rLog[i].list[j].type = "ADD_ENTITY"

\* the addition of a journal entry raises a voucher counter by one exactly
\* when no entry of the collection carries its voucherId and its entry type
\* and id prefix are those of the counter's series
voucherGuardHolds ==
    (lastStep("ADD_ENTITY") /\ rAction.entity = "journalEntries") =>
        LET before == Get(rPrev, "journalEntries").v
            isNew == \A i \in DOMAIN before :
                        Get(before[i], "voucherId")
                            # Get(rAction.data, "voucherId")
        IN  \A counter \in VoucherCounters :
                Get(rState, counter) =
                    IF isNew /\ matchesSeries(rAction.data, counter)
                    THEN Num(Get(rPrev, counter).v + 1)
                    ELSE Get(rPrev, counter)

\* C12 as stated: a journal entry raises a voucher counter only when its
\* voucherId is new, and then only the counter of the series that its entry
\* type and id prefix match; after additions only, each voucher counter is
\* its starting value plus the number of distinct voucherIds that were added
\* with the entry type and id prefix of its series.
C12_CounterCountsMatchingVouchers ==
    /\ voucherGuardHolds
    /\ (additionsOnly /\ rState # Throw) =>
          LET entries == Get(rState, "journalEntries").v
          IN  \A counter \in VoucherCounters :
                  Get(rState, counter).v =
                      Get(initialState, counter).v
                      + Cardinality({ Get(entries[i], "voucherId") :
                                        i \in { j \in DOMAIN entries :
                                                  matchesSeries(entries[j],
                                                                counter) } })

\* C12 amended: a journal entry raises a voucher counter only when its
\* voucherId is new, and then only the counter of the series that its entry
\* type and id prefix match; after additions only, each voucher counter is
\* its starting value plus the number of vouchers whose first entry has the
\* entry type and id prefix of its series.  A voucher whose first entry does
\* not match is counted by no series, whatever its later entries are.
C12_CounterCountsFirstEntries ==
    /\ voucherGuardHolds
    /\ (additionsOnly /\ rState # Throw) =>
          LET entries == Get(rState, "journalEntries").v
              first == { i \in DOMAIN entries :
                           \A j \in 1..(i - 1) :
                               Get(entries[j], "voucherId")
                                   # Get(entries[i], "voucherId") }
          IN  \A counter \in VoucherCounters :
                  Get(rState, counter).v =
                      Get(initialState, counter).v
                      + Cardinality({ i \in first :
                                        matchesSeries(entries[i], counter) })

\* two receipt vouchers have been added, and a second line of the first one:
\* the receipt counter stands at 3
C12_Witness ==
    /\ additionsOnly
    /\ lastStep("ADD_ENTITY")
    /\ rAction.entity = "journalEntries"
    /\ Len(Get(rState, "journalEntries").v) = 3
    /\ \E i \in DOMAIN Get(rPrev, "journalEntries").v :
          Get(Get(rPrev, "journalEntries").v[i], "voucherId")
              = Get(rAction.data, "voucherId")
    /\ matchesSeries(rAction.data, "nextReceiptVoucherNumber")
    /\ Get(rState, "nextReceiptVoucherNumber") = Num(3)
    /\ Get(rPrev, "nextReceiptVoucherNumber") = Num(3)

\* C13: an ADD_ENTITY action applied twice in a row raises no counter by more
\* than one: the counter of its collection is counted once for the record
\* id, the counter of a voucher series once for the voucherId.
C13_ReplayedAdditionCountsOnce ==
    [][(/\ rAction.type = "ADD_ENTITY"
        /\ rAction' = rAction
        /\ rState # Throw
        /\ rState' # Throw) =>
           \A counter \in CounterKeys :
               Get(rState', counter).v <= Get(rPrev, counter).v + 1
      ]_vars

\* the records of the collection, as the update with the payload leaves them
mergedRecords(records, payload) ==
    [i \in DOMAIN records |->
        IF Get(records[i], "id") # Get(payload, "id") THEN records[i]
        ELSE Obj([key \in DOMAIN records[i].v \cup DOMAIN payload.v |->
                     IF key \in DOMAIN payload.v THEN payload.v[key]
                     ELSE records[i].v[key]])]

\* after holds the records of before whose id is not the given one, in the
\* order of before
isRestWithout(after, before, id) ==
    LET kept == { i \in DOMAIN before : Get(before[i], "id") # id }
    IN  /\ Len(after) = Cardinality(kept)
        /\ \A i \in kept :
              after[Cardinality({ j \in kept : j <= i })] = before[i]

\* C14: UPDATE_ENTITY replaces every record of the named collection that has
\* the id of the payload by its shallow merge with the payload (the fields of
\* the payload win, the other fields are kept), and adds no record;
\* DELETE_ENTITY removes exactly the records with the given id and keeps the
\* others in their order.  Neither changes another record, another collection
\* or a counter: after a deletion the counter still stands where it stood.
C14_UpdateAndDeleteTouchOnlyTheId ==
    /\ lastStep("UPDATE_ENTITY") =>
          /\ Get(rState, rAction.entity).v
                = mergedRecords(Get(rPrev, rAction.entity).v, rAction.data)
          /\ Len(Get(rState, rAction.entity).v)
                = Len(Get(rPrev, rAction.entity).v)
          /\ sameExcept({ rAction.entity })
    /\ lastStep("DELETE_ENTITY") =>
          /\ isRestWithout(Get(rState, rAction.entity).v,
                           Get(rPrev, rAction.entity).v, rAction.id)
          /\ sameExcept({ rAction.entity })

\* the second of two invoices is deleted: the first one is left, and the
\* invoice counter stays at 3
C14_Witness ==
    /\ lastStep("DELETE_ENTITY")
    /\ rAction.entity = "salesInvoices"
    /\ Len(Get(rPrev, "salesInvoices").v) = 2
    /\ Get(rState, "salesInvoices").v = << Get(rPrev, "salesInvoices").v[1] >>
    /\ Get(rState, "nextInvoiceNumber") = Num(3)

\* the actions of the list applied to the aggregate one after another
RECURSIVE appliedInOrder(_, _, _)
appliedInOrder(st, list, i) ==
    IF i > Len(list) \/ st = Throw THEN st
    ELSE appliedInOrder(dataReducer(st, list[i]), list, i + 1)

\* C15: BATCH_UPDATE with the list a1, ..., an returns the aggregate that
\* a1, ..., an return when they are applied one after another in that order,
\* each to the result of the one before; the whole list is one step of the
\* reducer, and the empty list returns the aggregate as it is.
C15_BatchIsSequentialFold ==
    lastStep("BATCH_UPDATE") =>
        /\ rState = appliedInOrder(rPrev, rAction.list, 1)
        /\ rAction.list = << >> => rState = rPrev
        /\ rSteps = Len(rLog)

\* a batch has added the two lines of a receipt voucher: the second line has
\* found the first in the collection, and the receipt counter stands at 2
C15_Witness ==
    /\ lastStep("BATCH_UPDATE")
    /\ Len(rAction.list) = 2
    /\ rAction.list[1] = rAction.list[2]
    /\ Len(Get(rState, "journalEntries").v)
          = Len(Get(rPrev, "journalEntries").v) + 2
    /\ Get(rPrev, "nextReceiptVoucherNumber") = Num(1)
    /\ Get(rState, "nextReceiptVoucherNumber") = Num(2)

\* the master data that C16 names
MasterDataKeys ==
    { "customers", "suppliers", "employees", "items", "divisions", "banks",
      "vehicles" } \cup DOMAIN SeededAccounts

\* C16: after HARD_RESET_TRANSACTIONS every transactional collection is
\* empty, every next* counter of the aggregate is 1, and the master data
\* (customers, suppliers, employees, items, divisions, banks, the account
\* lists, vehicles) is as before.
C16_HardResetClearsAndRestarts ==
    lastStep("HARD_RESET_TRANSACTIONS") =>
        /\ \A key \in HardResetCollections : Get(rState, key) = Arr(<< >>)
        /\ \A counter \in CounterKeys : Get(rState, counter) = Num(1)
        /\ \A key \in MasterDataKeys : Get(rState, key) = Get(rPrev, key)

-----------------------------------------------------------------------------
(* Properties of the salary calculator, checked under SpecPayroll *)

\* the employees of the report
reported ==
    LET employees == employeesToProcess(rState, Str(<< >>))
    IN  { employees[i] : i \in DOMAIN employees }

isLabour(employee) == Get(employee, "employeeType") = S("Labour")

\* the years of service of the employee at the end of the selected month
yearsOf(employee) ==
    yearsOfService(employee, currentDate.year, currentDate.month, timeZone)

gratuityOf(employee) == gratuityAccrued(employee, yearsOf(employee))

\* the days of the calendar up to the day of the month (1..12) of the year
calendarDay(year, month, day) ==
    LET before == << 0, 31, 59, 90, 120, 151, 181, 212, 243, 273, 304, 334 >>
        leap == (year % 4 = 0 /\ year % 100 # 0) \/ year % 400 = 0
        y == year - 1
    IN  365 * y + y \div 4 - y \div 100 + y \div 400 + before[month]
            + (IF leap /\ month > 2 THEN 1 ELSE 0) + day

\* the last day of the selected month
monthEnd ==
    LET year == currentDate.year
        month == currentDate.month + 1
        leap == (year % 4 = 0 /\ year % 100 # 0) \/ year % 400 = 0
    IN  [year |-> year, month |-> month,
         day |-> IF month = 2 THEN (IF leap THEN 29 ELSE 28)
                 ELSE IF month \in {4, 6, 9, 11} THEN 30 ELSE 31]

\* the days from the joining date of the employee to the last day of the
\* selected month
daysOfService(employee) ==
    LET joined == dateOf(Get(employee, "joiningDate"))
    IN  calendarDay(monthEnd.year, monthEnd.month, monthEnd.day)
            - calendarDay(joined.year, joined.month, joined.day)

\* the employee joined on the day of the last day of the selected month, two
\* years earlier
joinedTwoYearsBefore(employee) ==
    dateOf(Get(employee, "joiningDate"))
        = [monthEnd EXCEPT !.year = monthEnd.year - 2]

\* C17 as stated: for a Labour employee the gratuity accrued and the leave
\* salary accrued are both 600 times the years of service, the years of
\* service being the days from the joining date to the last day of the
\* selected month divided by 365.25, and 0 when the joining date is later;
\* for a joining date two years before the end of the month both are 1200.
C17_LabourAccrualPerYear ==
    \A employee \in reported :
        isLabour(employee) =>
            LET days == daysOfService(employee)
                years == Frac(IF days > 0 THEN 4 * days ELSE 0, 1461)
            IN  /\ gratuityOf(employee) = Times(Frac(600, 1), years)
                /\ leaveSalaryAccrued(yearsOf(employee))
                      = Times(Frac(600, 1), years)
                /\ joinedTwoYearsBefore(employee) =>
                      gratuityOf(employee) = Frac(1200, 1)

\* C17 amended: for a Labour employee the gratuity accrued and the leave
\* salary accrued are both 600 times the years of service.  The years of
\* service are the time from midnight UTC of the joining date to midnight,
\* in the time zone of the browser, of the last day of the selected month,
\* divided by 365.25 days, and 0 when that time is negative.  For a joining
\* date two years before the end of the month, in UTC, both are
\* 600 * 730 / 365.25 (1199.18), and 600 * 731 / 365.25 (1200.82) when a
\* 29th of February lies between; they are not 1200.
C17_LabourAccrualPerElapsedYear ==
    \A employee \in reported :
        isLabour(employee) =>
            LET hours == 24 * daysOfService(employee) - timeZone
                years == Frac(IF hours > 0 THEN hours ELSE 0, 8766)
            IN  /\ gratuityOf(employee) = Times(Frac(600, 1), years)
                /\ leaveSalaryAccrued(yearsOf(employee))
                      = Times(Frac(600, 1), years)
                /\ (joinedTwoYearsBefore(employee) /\ timeZone = 0) =>
                      gratuityOf(employee)
                          \in { Frac(600 * 4 * 730, 1461),
                                Frac(600 * 4 * 731, 1461) }

\* a Labour employee who joined on 2022-01-31 is reported for January 2024,
\* in UTC: 730 days of service, and a gratuity below 1200
C17_Witness ==
    /\ timeZone = 0
    /\ \E employee \in reported :
          /\ isLabour(employee)
          /\ joinedTwoYearsBefore(employee)
          /\ daysOfService(employee) = 730
          /\ gratuityOf(employee) = Frac(584000, 487)
          /\ 487 * 1199 < 584000
          /\ 584000 < 487 * 1200

\* C18: for an employee who is not of type Labour, with Y years of service
\* and basicSalary / 30 as the daily wage, the gratuity accrued is 21 daily
\* wages times Y when 1 <= Y <= 5 and 30 daily wages times Y when Y > 5:
\* beyond five years the 30 days are paid for all Y years.  With basicSalary
\* 3000 that is 6300 at Y = 3 and 18000 at Y = 6.
C18_OfficeGratuityRate ==
    \A employee \in reported :
        ~isLabour(employee) =>
            LET Y == yearsOf(employee)
                basicSalary == Get(employee, "basicSalary").v
            IN  /\ (Y.n >= Y.d /\ Y.n <= 5 * Y.d) =>
                      gratuityOf(employee) = Times(Frac(21 * basicSalary, 30), Y)
                /\ Y.n > 5 * Y.d =>
                      gratuityOf(employee) = Times(Frac(30 * basicSalary, 30), Y)
                /\ (basicSalary = 3000 /\ Y = Frac(3, 1)) =>
                      gratuityOf(employee) = Frac(6300, 1)
                /\ (basicSalary = 3000 /\ Y = Frac(6, 1)) =>
                      gratuityOf(employee) = Frac(18000, 1)

\* an Office employee with basicSalary 3000 has 6 years of service to the
\* hour, and a gratuity of 18000
C18_Witness ==
    \E employee \in reported :
        /\ ~isLabour(employee)
        /\ Get(employee, "basicSalary") = Num(3000)
        /\ yearsOf(employee) = Frac(6, 1)
        /\ gratuityOf(employee) = Frac(18000, 1)

\* C19 as stated: every employee, of either type, with less than one year
\* of service at the end of the selected month has a gratuity accrued of 0.
C19_NoGratuityBeforeOneYear ==
    \A employee \in reported :
        yearsOf(employee).n < yearsOf(employee).d =>
            gratuityOf(employee) = Frac(0, 1)

\* C19 amended: an employee who is not of type Labour and has less than one
\* year of service at the end of the selected month has a gratuity accrued
\* of 0; a Labour employee accrues 600 times the years of service from the
\* first day, which is more than 0 as soon as the joining date has passed.
C19_NoOfficeGratuityBeforeOneYear ==
    \A employee \in reported :
        LET Y == yearsOf(employee)
        IN  Y.n < Y.d =>
                /\ ~isLabour(employee) => gratuityOf(employee) = Frac(0, 1)
                /\ isLabour(employee) =>
                      /\ gratuityOf(employee) = Times(Frac(600, 1), Y)
                      /\ Y.n > 0 => gratuityOf(employee).n > 0

\* an Office employee is reported in the first year of service, with no
\* gratuity; a Labour employee in the first year of service has one
C19_Witness ==
    /\ \E employee \in reported :
          /\ ~isLabour(employee)
          /\ yearsOf(employee).n > 0
          /\ yearsOf(employee).n < yearsOf(employee).d
          /\ gratuityOf(employee) = Frac(0, 1)
    /\ \E employee \in reported :
          /\ isLabour(employee)
          /\ yearsOf(employee).n < yearsOf(employee).d
          /\ gratuityOf(employee).n > 0

\* the attendance records of the employee with the status that are dated in
\* the selected month
recordsInMonth(employee, status) ==
    LET records == Get(rState, "attendanceRecords").v
    IN  { i \in DOMAIN records :
            /\ Get(records[i], "employeeId") = Get(employee, "id")
            /\ Get(records[i], "status") = S(status)
            /\ dateOf(Get(records[i], "date")).year = currentDate.year
            /\ dateOf(Get(records[i], "date")).month = currentDate.month + 1 }

\* C20: for every active employee the deduction of the selected month is
\* (the number of the employee's Absent records dated in the month + half
\* the number of the HalfDay records dated in the month) * basicSalary / 30.
\* Days without a record, records of PaidLeave, SickLeave or Holiday, records
\* of other months and records of other employees add nothing.  2 Absent and
\* 1 HalfDay with basicSalary 3000 are 250.
C20_UnpaidDayDeduction ==
    \A employee \in reported :
        LET absent == Cardinality(recordsInMonth(employee, "Absent"))
            half == Cardinality(recordsInMonth(employee, "HalfDay"))
            basicSalary == Get(employee, "basicSalary").v
            deduction == deductions(rState, employee, currentDate.year,
                                    currentDate.month)
        IN  /\ deduction = Frac((2 * absent + half) * basicSalary, 60)
            /\ (absent = 2 /\ half = 1 /\ basicSalary = 3000) =>
                  deduction = Frac(250, 1)

\* E2 has two Absent records and one HalfDay record in January 2024 and an
\* Absent record in December 2023, E3 has an Absent record in January 2024:
\* the deduction of E2 for January is 250
C20_Witness ==
    /\ currentDate.month = 0
    /\ Len(Get(rState, "attendanceRecords").v) = 5
    /\ \E employee \in reported :
          /\ Get(employee, "id") = S("E2")
          /\ Cardinality(recordsInMonth(employee, "Absent")) = 2
          /\ Cardinality(recordsInMonth(employee, "HalfDay")) = 1
          /\ deductions(rState, employee, 2024, 0) = Frac(250, 1)

\* C21: for every active employee and month the report has a row whose
\* netPayableSalary is basicSalary + allowance + otherExps + overtime pay
\* - the unpaid-day deduction - advances, the overtime pay being 7 for every
\* hour of the month's overtime records plus, for every press record of the
\* month, its amount when above 0 and 7 for every hour otherwise.
C21_NetPayable ==
    \A employee \in reported :
        LET net == netPayableSalary(rState, employee, currentDate.year,
                                    currentDate.month)
            otAmount == overtimePay(rState, employee, currentDate.year,
                                    currentDate.month)
            fixed == Get(employee, "basicSalary").v
                        + Get(employee, "allowance").v
                        + Get(employee, "otherExps").v
                        - OrElse(Get(employee, "advances"), Num(0)).v
            unpaid == Frac((2 * Cardinality(recordsInMonth(employee, "Absent"))
                              + Cardinality(recordsInMonth(employee, "HalfDay")))
                             * Get(employee, "basicSalary").v, 60)
        IN  /\ net # Throw
            /\ net = Frac((fixed * otAmount.d + otAmount.n) * unpaid.d
                            - unpaid.n * otAmount.d, otAmount.d * unpaid.d)

\* the instant at which the selected month ends for the calculator, in
\* hours: midnight of its last day in the time zone of the browser
endOfMonth ==
    24 * dayNumber(currentDate.year, currentDate.month + 1, 0) - timeZone

\* C29: for every active employee, Labour or Office, the gratuity and the
\* leave salary that the settlement tool takes as accrued at the instant the
\* selected month ends are the gratuity and the leave salary that the salary
\* calculator shows for that month, and the due amounts of the settlement
\* tool are not negative.
C29_SettlementAgreesWithPayroll ==
    \A employee \in reported :
        LET settlement == stats(employee, endOfMonth)
        IN  /\ settlement.totalAccruedGratuity = gratuityOf(employee)
            /\ settlement.totalAccruedLeave
                  = leaveSalaryAccrued(yearsOf(employee))
            /\ settlement.dueGratuity.n >= 0
            /\ settlement.dueLeave.n >= 0

-----------------------------------------------------------------------------
(* Properties of the attendance register, checked under SpecAttendance *)

\* the attendance records of the aggregate
attendanceRecords == recordsOf(rState, "attendanceRecords")

\* C22: after any sequence of cell edits (save, reset to Present) and of
\* remote restores arriving while a cell is open, the aggregate holds at most
\* one attendance record for each employee and date.
C22_OneRecordPerCell ==
    \A i, j \in DOMAIN attendanceRecords :
        (/\ Get(attendanceRecords[i], "employeeId")
                = Get(attendanceRecords[j], "employeeId")
         /\ Get(attendanceRecords[i], "date") = Get(attendanceRecords[j], "date"))
            => i = j

-----------------------------------------------------------------------------
(* Properties of the salary payments, checked under SpecPayments *)

\* the salary payments of an aggregate
salaryPaymentsOf(st) == recordsOf(st, "salaryPayments")

\* the positions of the payments of the aggregate with the id
paymentsWithId(st, id) ==
    { i \in DOMAIN salaryPaymentsOf(st) : Get(salaryPaymentsOf(st)[i], "id") = id }

\* C23: the aggregate holds at most one SalaryPayment for each employee and
\* month, with id 'SP-<employeeId>-<monthYear>'; a confirmation for a pair
\* that has a payment replaces the method and the amount of that payment and
\* adds none, and a confirmation for a pair without one adds one payment.
C23_OnePaymentPerEmployeeAndMonth ==
    LET after == salaryPaymentsOf(rState)
        before == salaryPaymentsOf(rPrev)
    IN  /\ \A i, j \in DOMAIN after :
              (/\ Get(after[i], "employeeId") = Get(after[j], "employeeId")
               /\ Get(after[i], "monthYear") = Get(after[j], "monthYear"))
                  => i = j
        /\ \A i \in DOMAIN after :
              Get(after[i], "id")
                  = Str(<< "SP-" >> \o Get(after[i], "employeeId").v
                        \o << "-" >> \o Get(after[i], "monthYear").v)
        /\ rAction.type \in {"ADD_ENTITY", "UPDATE_ENTITY"} =>
              LET id == Get(rAction.data, "id")
                  paid == paymentsWithId(rState, id)
              IN  /\ Cardinality(paid) = 1
                  /\ \A i \in paid :
                        /\ Get(after[i], "paymentMethod")
                              = Get(rAction.data, "paymentMethod")
                        /\ Get(after[i], "amountPaid")
                              = Get(rAction.data, "amountPaid")
                  /\ Len(after) = Len(before)
                                    + (IF paymentsWithId(rPrev, id) = {}
                                       THEN 1 ELSE 0)
                  /\ \A i \in DOMAIN before :
                        Get(before[i], "id") # id => after[i] = before[i]

\* a payment by bank of 1450 is confirmed for an employee and a month whose
\* payment was 1500 in cash, next to the payment of another month
C23_Witness ==
    /\ rAction.type = "UPDATE_ENTITY"
    /\ Len(salaryPaymentsOf(rState)) = 2
    /\ \E i \in DOMAIN salaryPaymentsOf(rPrev) :
          /\ Get(salaryPaymentsOf(rPrev)[i], "id") = Get(rAction.data, "id")
          /\ Get(salaryPaymentsOf(rPrev)[i], "paymentMethod") = S("Cash")
          /\ Get(salaryPaymentsOf(rPrev)[i], "amountPaid") = Num(1500)
          /\ Get(salaryPaymentsOf(rState)[i], "paymentMethod") = S("Bank")
          /\ Get(salaryPaymentsOf(rState)[i], "amountPaid") = Num(1450)

-----------------------------------------------------------------------------
(* Properties of the posting operations, checked under SpecPosting *)

\* the sum of the field over the journal entries with the voucherId
RECURSIVE voucherTotal(_, _, _)
voucherTotal(entries, voucherId, field) ==
    IF entries = << >> THEN 0
    ELSE (IF Get(Head(entries), "voucherId") = voucherId
          THEN Get(Head(entries), field).v ELSE 0)
         + voucherTotal(Tail(entries), voucherId, field)

\* C24: after every completed posting operation (an invoice posted, a
\* vehicle charge saved), for every voucherId the debits of the journal
\* entries with that voucherId sum to their credits, whatever the item
\* value, the freight with or without a forwarder, the customs charges and
\* the commission.
C24_VouchersBalance ==
    LET entries == recordsOf(rState, "journalEntries")
    IN  \A i \in DOMAIN entries :
            voucherTotal(entries, Get(entries[i], "voucherId"), "debit")
                = voucherTotal(entries, Get(entries[i], "voucherId"), "credit")

-----------------------------------------------------------------------------
(* Further properties of the synchronisation layer, checked under Spec *)

\* the writer of the change that a notification shows: a client, or "" for
\* the document found at start-up and for a change by another program
writerOf(notification) ==
    IF notification.version = 0 THEN ""
    ELSE hist.writers[notification.version]

\* C25: every notification that a client ignores shows the result of a write
\* of that client; a notification that shows the change of another writer is
\* never ignored, whatever dispatches preceded it.
C25_OnlyEchoesIgnored ==
    [][\A c \in Clients :
          (notified(c) /\ isLocalChange[c]) =>
              writerOf(Head(snapshots[c])) = c
      ]_vars

\* C26: once a write of a client has failed and its saveStatus is 'error',
\* the status leaves 'error' only through a write of that client: it becomes
\* 'saving' when the client issues one and 'synced' when one commits; no
\* notification sets it to 'synced'.
C26_ErrorStatusSticky ==
    [][\A c \in Clients :
          (saveStatus[c] = "error" /\ saveStatus'[c] # "error") =>
              \/ ev'.c = c /\ ev'.issued > 0 /\ saveStatus'[c] = "saving"
              \/ commits(c) /\ saveStatus'[c] = "synced"
      ]_vars

-----------------------------------------------------------------------------
(* Properties of the employee master data, checked under SpecEmployees *)

\* C28: no two employees of the aggregate share an id: neither a blank row
\* nor an imported row, with its own code or with a generated id, is added
\* with an id that an employee of the aggregate or an earlier row of the same
\* import has.
C28_UniqueEmployeeIds ==
    LET employees == recordsOf(rState, "employees")
    IN  \A i, j \in DOMAIN employees :
            Get(employees[i], "id") = Get(employees[j], "id") => i = j

====
